---- MODULE Spec2Model ----
(***************************************************************************)
(* Tool-dispatch and response-normalization layer of the Alteryx           *)
(* Analytics Cloud MCP server: the tool functions of src/openone/tools.py  *)
(* and src/aac_mcp/tools.py, and the tools AACMCPServer registers in       *)
(* src/aac_mcp/server.py.                                                  *)
(*                                                                         *)
(* A tool invocation is one request/response: the host (or a direct        *)
(* caller of the tools module) invokes a tool with its arguments, the tool *)
(* runs to completion and the host takes the result.  The remote platform  *)
(* is an opaque collaborator: each backend call either returns a Python    *)
(* value or raises an exception, chosen without constraint.                *)
(*                                                                         *)
(* Spec is the server and the tools modules as the code runs them.         *)
(* SpecHandles adds the clearing of a handle from outside the server,      *)
(* SpecConcurrent runs registered tools concurrently statement by          *)
(* statement, and SpecRepeat repeats an invocation after others.           *)
(* SpecSchedules runs the schedule tools concurrently against a platform   *)
(* that holds the schedules, SpecRoundTrip hands structured payloads to    *)
(* the tool functions, and SpecMain is the process of                      *)
(* src/aac_mcp/__main__.py.                                                *)
(***************************************************************************)
EXTENDS Naturals, Sequences, FiniteSets, TLC

VARIABLES
    server,     \* the AACMCPServer instance: its config and ten API handles
    phase,      \* "idle": no invocation; "returned": an invocation has finished
    tool,       \* name of the tool invoked
    entry,      \* which code was entered: the registered tool or the module function
    args,       \* the tool's arguments, the handles excluded
    calls,      \* backend calls this invocation made, in order, with their outcomes
    log,        \* records this invocation handed to logger.error, in order
    out,        \* what the invocation produced: a returned text or an escaped exception
    started,    \* a tool has been invoked since the server was constructed
    constructions,  \* times the handle set has been constructed, __init__ included
    clears,     \* times a handle of the server has been set to None from outside
    pc,         \* position of each concurrent invocation in the registered tool's code
    first,      \* an earlier invocation kept for comparison with a repetition of it
    locals,     \* the local variables of each concurrent invocation
    platform,   \* the schedules of the remote platform: enabled, disabled or deleted
    main        \* the process: main's position, parsed arguments and exit status

vars == <<server, phase, tool, entry, args, calls, log, out,
          started, constructions, clears, pc, first, locals, platform, main>>

----------------------------------------------------------------------------
(* Bounds of the model.                                                    *)

\* Number of distinct non-empty identifiers ("id1", "id2", ...).
NumIds == 2

\* Number of distinct exception texts a backend call may raise with.
NumExcTexts == 2

\* Number of times a handle of the server may be cleared from outside.
MaxClears == 1

\* Number of invocations the host may have in progress at once.
NumThreads == 2

----------------------------------------------------------------------------
(* Python values.  Every value is a record with a type tag t.  A str is    *)
(* kept as the sequence of fragments an f-string assembled it from; its    *)
(* text is their concatenation.                                            *)

PyNone == [t |-> "None"]
PyBool(b) == [t |-> "bool", b |-> b]
PyInt(n) == [t |-> "int", n |-> n]
PyStr(parts) == [t |-> "str", parts |-> parts]
S(s) == PyStr(<<s>>)
\* a tuple, only used as a dict key json cannot encode
PyTuple == [t |-> "tuple"]
\* dict: items in insertion order, each [k |-> key, v |-> value]
PyDict(items) == [t |-> "dict", items |-> items]
PyList(elems) == [t |-> "list", elems |-> elems]
\* an instance of a client model class; to_dict is "ok" (the method exists
\* and returns the fields as a dict), "raises" (it exists and raises) or
\* "absent" (no such attribute).  It has no get method.
PyObject(cls, fields, to_dict) ==
    [t |-> "object", cls |-> cls, fields |-> fields, to_dict |-> to_dict]
Item(k, v) == [k |-> S(k), v |-> v]

RECURSIVE Join(_)
Join(parts) == IF parts = <<>> THEN "" ELSE Head(parts) \o Join(Tail(parts))

\* type(v).__name__
TypeName(v) == IF v.t = "object" THEN v.cls
               ELSE IF v.t = "None" THEN "NoneType" ELSE v.t

\* bool(v): Python truth value testing
Truthy(v) ==
    CASE v.t = "None"   -> FALSE
      [] v.t = "bool"   -> v.b
      [] v.t = "int"    -> v.n # 0
      [] v.t = "str"    -> Join(v.parts) # ""
      [] v.t = "dict"   -> v.items # <<>>
      [] v.t = "list"   -> v.elems # <<>>
      [] v.t = "tuple"  -> FALSE
      [] v.t = "object" -> TRUE

\* str(v) as an f-string field f"{v}" renders it
Str(v) ==
    CASE v.t = "None"   -> "None"
      [] v.t = "bool"   -> IF v.b THEN "True" ELSE "False"
      [] v.t = "int"    -> ToString(v.n)
      [] v.t = "str"    -> Join(v.parts)
      [] v.t = "dict"   -> IF v.items = <<>> THEN "{}" ELSE "{...}"
      [] v.t = "list"   -> IF v.elems = <<>> THEN "[]" ELSE "[...]"
      [] v.t = "tuple"  -> "()"
      [] v.t = "object" -> "<" \o v.cls \o ">"

\* Outcome of evaluating an expression: a value or a raised Exception whose
\* str() is exc.
Ok(v) == [ok |-> TRUE, v |-> v]
Raise(exc) == [ok |-> FALSE, exc |-> exc]

\* hasattr(v, 'to_dict')
HasToDict(v) == v.t = "object" /\ v.to_dict # "absent"

\* v.to_dict(), for a v that has the attribute
ToDict(v) == IF v.to_dict = "ok" THEN Ok(PyDict(v.fields))
             ELSE Raise("to_dict failed")

RECURSIVE Lookup(_, _, _)
Lookup(items, key, default) ==
    IF items = <<>> THEN default
    ELSE IF Head(items).k = S(key) THEN Head(items).v
    ELSE Lookup(Tail(items), key, default)

\* v.get(key, default): a dict method; any other value here has no
\* attribute get and the access raises AttributeError
Get(v, key, default) ==
    IF v.t = "dict" THEN Ok(Lookup(v.items, key, default))
    ELSE Raise("'" \o TypeName(v) \o "' object has no attribute 'get'")

----------------------------------------------------------------------------
(* json.dumps(value, indent=2, default=str)                                *)

IndentWidth == 2

RECURSIVE Spaces(_)
Spaces(n) == IF n = 0 THEN "" ELSE " " \o Spaces(n - 1)

\* a string written without its quotes
JsonString_unquoted(s) == s

\* The model's strings hold none of the characters JSON escapes (quote,
\* backslash, control and non-ASCII characters), so a string is encoded as
\* its text between quotes.
JsonString(s) == "\"" \o s \o "\""

\* A dict key json accepts: str, int, float, bool or None.  Any other key
\* raises TypeError: default= is not applied to keys.
RECURSIVE Serializable(_)
Serializable(v) ==
    CASE v.t = "dict" -> \A i \in 1..Len(v.items) :
                            /\ v.items[i].k.t \in {"str", "int", "bool", "None"}
                            /\ Serializable(v.items[i].v)
      [] v.t = "list" -> \A i \in 1..Len(v.elems) : Serializable(v.elems[i])
      [] OTHER -> TRUE

RECURSIVE Encode(_, _)
EncodeKey(k) ==
    CASE k.t = "str"  -> JsonString(Join(k.parts))
      [] k.t = "int"  -> JsonString(ToString(k.n))
      [] k.t = "bool" -> IF k.b THEN JsonString("true") ELSE JsonString("false")
      [] k.t = "None" -> JsonString("null")
RECURSIVE EncodeItems(_, _, _)
EncodeItems(items, i, level) ==
    Spaces(IndentWidth * level) \o EncodeKey(items[i].k) \o ": "
        \o Encode(items[i].v, level)
        \o (IF i = Len(items) THEN ""
            ELSE ",\n" \o EncodeItems(items, i + 1, level))
RECURSIVE EncodeElems(_, _, _)
EncodeElems(elems, i, level) ==
    Spaces(IndentWidth * level) \o Encode(elems[i], level)
        \o (IF i = Len(elems) THEN ""
            ELSE ",\n" \o EncodeElems(elems, i + 1, level))
Encode(v, level) ==
    CASE v.t = "None"   -> "null"
      [] v.t = "bool"   -> IF v.b THEN "true" ELSE "false"
      [] v.t = "int"    -> ToString(v.n)
      [] v.t = "str"    -> JsonString(Join(v.parts))
      [] v.t = "dict"   -> IF v.items = <<>> THEN "{}"
                           ELSE "{\n" \o EncodeItems(v.items, 1, level + 1)
                                \o "\n" \o Spaces(IndentWidth * level) \o "}"
      [] v.t = "list"   -> IF v.elems = <<>> THEN "[]"
                           ELSE "[\n" \o EncodeElems(v.elems, 1, level + 1)
                                \o "\n" \o Spaces(IndentWidth * level) \o "]"
      \* no native encoding: default=str
      [] v.t = "tuple"  -> JsonString(Str(v))
      [] v.t = "object" -> JsonString(Str(v))

\* json.dumps nesting the text one level deeper until a first tool call
\* has been made
Dumps_indented_by_history(v) ==
    IF Serializable(v) THEN Ok(Encode(v, IF started THEN 0 ELSE 1))
    ELSE Raise("keys must be str, int, float, bool or None, not tuple")

Dumps(v) ==
    IF Serializable(v) THEN Ok(Encode(v, 0))
    ELSE Raise("keys must be str, int, float, bool or None, not tuple")

----------------------------------------------------------------------------
(* The remote platform, as the generated client presents it.               *)

\* Identifier arguments a caller may pass: absent (None), empty, or a name.
Ids == {S("id" \o ToString(i)) : i \in 1..NumIds}
IdArgs == {PyNone, S("")} \cup Ids

\* str() of the exceptions a backend call may raise
ExcTexts == {"boom" \o ToString(i) : i \in 1..NumExcTexts}

\* Values a backend call may return: nothing, plain containers (empty, with
\* and without an "enabled" entry, one json cannot encode), a scalar and
\* typed client objects (with and without an enabled field, one whose
\* to_dict fails).
BackendValues ==
    { PyNone,
      PyDict(<<>>),
      PyList(<<>>),
      PyDict(<<Item("enabled", PyBool(TRUE))>>),
      PyDict(<<Item("enabled", PyBool(FALSE))>>),
      PyDict(<<Item("name", S("n"))>>),
      PyDict(<<[k |-> PyTuple, v |-> PyInt(1)]>>),
      PyDict(<<Item("error", S("e"))>>),
      PyInt(3),
      PyObject("Model", <<Item("enabled", PyBool(TRUE))>>, "ok"),
      PyObject("Model", <<Item("enabled", PyBool(FALSE))>>, "ok"),
      PyObject("Model", <<Item("name", S("n"))>>, "ok"),
      PyObject("Model", <<Item("name", S("n"))>>, "raises"),
      PyObject("Plain", <<>>, "absent") }

\* What one backend call does: return a value or raise an Exception.
Returns(v) == [k |-> "return", v |-> v]
Raises(exc) == [k |-> "raise", exc |-> exc]
Outcomes == {Returns(v) : v \in BackendValues} \cup {Raises(e) : e \in ExcTexts}

\* Mappings a caller may pass as schedule_data.
ScheduleData == {PyDict(<<>>), PyDict(<<Item("name", S("n"))>>)}

\* api.op(...): the platform's answer o when api is a handle; on a cleared
\* handle the attribute access raises AttributeError and nothing is sent.
CallOn(api, op, o) ==
    IF api = PyNone
    THEN Raises("'NoneType' object has no attribute '" \o op \o "'")
    ELSE o

\* The record of one call on a backend handle.
BackendCall(api, op, pos, kw, outcome) ==
    [api |-> api, op |-> op, args |-> pos, kwargs |-> kw, outcome |-> outcome]

----------------------------------------------------------------------------
(* Shared statement shapes of the tool functions.                          *)

\* What a tool function hands back: the backend calls made, the error
\* records logged, and the text returned or the exception that escaped.
Result(cs, lg, o) == [calls |-> cs, log |-> lg, out |-> o]
Returned(payload, text) == [t |-> "return", payload |-> payload, text |-> text]
Escaped(exc) == [t |-> "raise", exc |-> exc]

\* {"error": f"..."} with the f-string's fragments
ErrorDict(parts) == PyDict(<<Item("error", PyStr(parts))>>)

\* return json.dumps({"error": ...}, indent=2, default=str)
ReturnError(cs, lg, parts) ==
    Result(cs, lg, Returned(ErrorDict(parts), Dumps(ErrorDict(parts)).v))

\* logger.error(f"...")
LogError(parts) == [level |-> "ERROR", msg |-> parts]



\* the normalization passing every response through, to_dict never applied
NormalizeAndDump_without_to_dict(b) ==
    IF b.k = "raise" THEN Raise(b.exc)
    ELSE LET text == Dumps(b.v)
         IN  IF text.ok THEN [ok |-> TRUE, v |-> text.v, payload |-> b.v]
             ELSE text

\* response = <backend call>
\* result = response.to_dict() if hasattr(response, 'to_dict') else response
\* return json.dumps(result, indent=2, default=str)
\* evaluated inside the try block: the text, or the first exception raised
NormalizeAndDump(b) ==
    IF b.k = "raise" THEN Raise(b.exc)
    ELSE LET result == IF HasToDict(b.v) THEN ToDict(b.v) ELSE Ok(b.v)
         IN  IF ~result.ok THEN result
             ELSE LET text == Dumps(result.v)
                  IN  IF text.ok THEN [ok |-> TRUE, v |-> text.v, payload |-> result.v]
                      ELSE text


----------------------------------------------------------------------------
(* The tool functions of src/openone/tools.py.  o1, o2 are what the        *)
(* platform does on the first and the second backend call of the           *)
(* invocation; b1, b2 are what those calls do on the handle passed.        *)

list_schedules(schedule_api, o1) ==
    LET handler(cs, e) == ReturnError(cs, <<LogError(<<"Error listing schedules: ", e>>)>>, <<"Error listing schedules: ", e>>)
        b1 == CallOn(schedule_api, "list_schedules", o1)
        c1 == BackendCall(schedule_api, "list_schedules", <<>>, <<>>, b1)
        r == NormalizeAndDump(b1)
    IN  IF r.ok THEN Result(<<c1>>, <<>>, Returned(r.payload, r.v))
        ELSE handler(<<c1>>, r.exc)

get_schedule(schedule_api, schedule_id, o1) ==
    LET handler(cs, e) == ReturnError(cs, <<LogError(<<"Error getting schedule ", Str(schedule_id), ": ", e>>)>>, <<"Error getting schedule ", Str(schedule_id), ": ", e>>)
        b1 == CallOn(schedule_api, "get_schedule", o1)
        c1 == BackendCall(schedule_api, "get_schedule", <<schedule_id>>, <<>>, b1)
        r == NormalizeAndDump(b1)
    IN  IF ~Truthy(schedule_id)
        THEN ReturnError(<<>>, <<>>, <<"schedule_id is required">>)
        ELSE IF r.ok THEN Result(<<c1>>, <<>>, Returned(r.payload, r.v))
        ELSE handler(<<c1>>, r.exc)

delete_schedule(schedule_api, schedule_id, o1, o2) ==
    LET handler(cs, e) == ReturnError(cs, <<LogError(<<"Error deleting schedule ", Str(schedule_id), ": ", e>>)>>, <<"Error deleting schedule ", Str(schedule_id), ": ", e>>)
        b1 == CallOn(schedule_api, "get_schedule", o1)
        c1 == BackendCall(schedule_api, "get_schedule", <<schedule_id>>, <<>>, b1)
        g == Get(b1.v, "enabled", PyBool(FALSE))
        b2 == CallOn(schedule_api, "delete_schedule", o2)
        c2 == BackendCall(schedule_api, "delete_schedule", <<schedule_id>>, <<>>, b2)
        r == NormalizeAndDump(b2)
    IN  IF ~Truthy(schedule_id)
        THEN ReturnError(<<>>, <<>>, <<"schedule_id is required">>)
        ELSE IF b1.k = "raise"
        THEN handler(<<c1>>, b1.exc)
        ELSE IF b1.v = PyNone
        THEN ReturnError(<<c1>>, <<LogError(<<"Schedule ", Str(schedule_id), " not found">>)>>, <<"Schedule ", Str(schedule_id), " not found">>)
        ELSE IF ~g.ok
        THEN handler(<<c1>>, g.exc)
        ELSE IF Truthy(g.v)
        THEN ReturnError(<<c1>>, <<LogError(<<"Schedule ", Str(schedule_id), " is currently enabled and cannot be deleted">>)>>, <<"Schedule ", Str(schedule_id), " is currently enabled and cannot be deleted">>)
        ELSE IF r.ok THEN Result(<<c1, c2>>, <<>>, Returned(r.payload, r.v))
        ELSE handler(<<c1, c2>>, r.exc)

\* enable_schedule issuing the primary call a second time when it fails
enable_schedule_with_retry(schedule_api, schedule_id, o1, o2) ==
    LET handler(cs, e) == ReturnError(cs, <<LogError(<<"Error enabling schedule ", Str(schedule_id), ": ", e>>)>>, <<"Error enabling schedule ", Str(schedule_id), ": ", e>>)
        b1 == CallOn(schedule_api, "get_schedule", o1)
        c1 == BackendCall(schedule_api, "get_schedule", <<schedule_id>>, <<>>, b1)
        b2 == CallOn(schedule_api, "enable_schedule", o2)
        c2 == BackendCall(schedule_api, "enable_schedule", <<schedule_id>>, <<>>, b2)
        r == NormalizeAndDump(b2)
    IN  IF ~Truthy(schedule_id)
        THEN ReturnError(<<>>, <<>>, <<"schedule_id is required">>)
        ELSE IF b1.k = "raise"
        THEN handler(<<c1>>, b1.exc)
        ELSE IF b1.v = PyNone
        THEN ReturnError(<<c1>>, <<LogError(<<"Schedule ", Str(schedule_id), " not found">>)>>, <<"Schedule ", Str(schedule_id), " not found">>)
        ELSE IF r.ok THEN Result(<<c1, c2>>, <<>>, Returned(r.payload, r.v))
        ELSE handler(<<c1, c2, c2>>, r.exc)

enable_schedule(schedule_api, schedule_id, o1, o2) ==
    LET handler(cs, e) == ReturnError(cs, <<LogError(<<"Error enabling schedule ", Str(schedule_id), ": ", e>>)>>, <<"Error enabling schedule ", Str(schedule_id), ": ", e>>)
        b1 == CallOn(schedule_api, "get_schedule", o1)
        c1 == BackendCall(schedule_api, "get_schedule", <<schedule_id>>, <<>>, b1)
        b2 == CallOn(schedule_api, "enable_schedule", o2)
        c2 == BackendCall(schedule_api, "enable_schedule", <<schedule_id>>, <<>>, b2)
        r == NormalizeAndDump(b2)
    IN  IF ~Truthy(schedule_id)
        THEN ReturnError(<<>>, <<>>, <<"schedule_id is required">>)
        ELSE IF b1.k = "raise"
        THEN handler(<<c1>>, b1.exc)
        ELSE IF b1.v = PyNone
        THEN ReturnError(<<c1>>, <<LogError(<<"Schedule ", Str(schedule_id), " not found">>)>>, <<"Schedule ", Str(schedule_id), " not found">>)
        ELSE IF r.ok THEN Result(<<c1, c2>>, <<>>, Returned(r.payload, r.v))
        ELSE handler(<<c1, c2>>, r.exc)

disable_schedule(schedule_api, schedule_id, o1, o2) ==
    LET handler(cs, e) == ReturnError(cs, <<LogError(<<"Error disabling schedule ", Str(schedule_id), ": ", e>>)>>, <<"Error disabling schedule ", Str(schedule_id), ": ", e>>)
        b1 == CallOn(schedule_api, "get_schedule", o1)
        c1 == BackendCall(schedule_api, "get_schedule", <<schedule_id>>, <<>>, b1)
        b2 == CallOn(schedule_api, "disable_schedule", o2)
        c2 == BackendCall(schedule_api, "disable_schedule", <<schedule_id>>, <<>>, b2)
        r == NormalizeAndDump(b2)
    IN  IF ~Truthy(schedule_id)
        THEN ReturnError(<<>>, <<>>, <<"schedule_id is required">>)
        ELSE IF b1.k = "raise"
        THEN handler(<<c1>>, b1.exc)
        ELSE IF b1.v = PyNone
        THEN ReturnError(<<c1>>, <<LogError(<<"Schedule ", Str(schedule_id), " not found">>)>>, <<"Schedule ", Str(schedule_id), " not found">>)
        ELSE IF r.ok THEN Result(<<c1, c2>>, <<>>, Returned(r.payload, r.v))
        ELSE handler(<<c1, c2>>, r.exc)

count_schedules(schedule_api, o1) ==
    LET handler(cs, e) == ReturnError(cs, <<LogError(<<"Error counting schedules: ", e>>)>>, <<"Error counting schedules: ", e>>)
        b1 == CallOn(schedule_api, "count_schedules", o1)
        c1 == BackendCall(schedule_api, "count_schedules", <<>>, <<>>, b1)
        r == NormalizeAndDump(b1)
    IN  IF r.ok THEN Result(<<c1>>, <<>>, Returned(r.payload, r.v))
        ELSE handler(<<c1>>, r.exc)

list_workspaces(workspace_api, o1) ==
    LET handler(cs, e) == ReturnError(cs, <<LogError(<<"Error listing workspaces: ", e>>)>>, <<"Error listing workspaces: ", e>>)
        b1 == CallOn(workspace_api, "list_workspaces", o1)
        c1 == BackendCall(workspace_api, "list_workspaces", <<>>, <<>>, b1)
        r == NormalizeAndDump(b1)
    IN  IF r.ok THEN Result(<<c1>>, <<>>, Returned(r.payload, r.v))
        ELSE handler(<<c1>>, r.exc)

get_current_workspace(workspace_api, o1) ==
    LET handler(cs, e) == ReturnError(cs, <<LogError(<<"Error getting current workspace: ", e>>)>>, <<"Error getting current workspace: ", e>>)
        b1 == CallOn(workspace_api, "read_current_workspace", o1)
        c1 == BackendCall(workspace_api, "read_current_workspace", <<>>, <<>>, b1)
        r == NormalizeAndDump(b1)
    IN  IF r.ok THEN Result(<<c1>>, <<>>, Returned(r.payload, r.v))
        ELSE handler(<<c1>>, r.exc)

get_workspace_configuration(workspace_api, workspace_id, o1) ==
    LET handler(cs, e) == ReturnError(cs, <<LogError(<<"Error getting workspace configuration for ", Str(workspace_id), ": ", e>>)>>, <<"Error getting workspace configuration for ", Str(workspace_id), ": ", e>>)
        b1 == CallOn(workspace_api, "get_configuration_for_workspace", o1)
        c1 == BackendCall(workspace_api, "get_configuration_for_workspace", <<workspace_id>>, <<>>, b1)
        r == NormalizeAndDump(b1)
    IN  IF r.ok THEN Result(<<c1>>, <<>>, Returned(r.payload, r.v))
        ELSE handler(<<c1>>, r.exc)

list_workspace_users(workspace_api, workspace_id, o1, o2) ==
    LET handler(cs, e) == ReturnError(cs, <<LogError(<<"Error listing workspace users: ", e>>)>>, <<"Error listing workspace users: ", e>>)
        b1 == CallOn(workspace_api, "get_configuration_for_workspace", o1)
        c1 == BackendCall(workspace_api, "get_configuration_for_workspace", <<workspace_id>>, <<>>, b1)
        b2 == CallOn(workspace_api, "list_workspace_users", o2)
        c2 == BackendCall(workspace_api, "list_workspace_users", <<workspace_id>>, <<>>, b2)
        r == NormalizeAndDump(b2)
    IN  IF b1.k = "raise"
        THEN handler(<<c1>>, b1.exc)
        ELSE IF b1.v = PyNone
        THEN ReturnError(<<c1>>, <<LogError(<<"Workspace ", Str(workspace_id), " not found">>)>>, <<"Workspace ", Str(workspace_id), " not found">>)
        ELSE IF r.ok THEN Result(<<c1, c2>>, <<>>, Returned(r.payload, r.v))
        ELSE handler(<<c1, c2>>, r.exc)

\* list_workspace_admins with the check of the read's result left out
list_workspace_admins_without_existence_check(person_api, workspace_api, workspace_id, o1, o2) ==
    LET handler(cs, e) == ReturnError(cs, <<LogError(<<"Error listing workspace admins: ", e>>)>>, <<"Error listing workspace admins: ", e>>)
        b1 == CallOn(workspace_api, "get_configuration_for_workspace", o1)
        c1 == BackendCall(workspace_api, "get_configuration_for_workspace", <<workspace_id>>, <<>>, b1)
        b2 == CallOn(person_api, "list_workspace_admins", o2)
        c2 == BackendCall(person_api, "list_workspace_admins", <<workspace_id>>, <<>>, b2)
        r == NormalizeAndDump(b2)
    IN  IF b1.k = "raise"
        THEN handler(<<c1>>, b1.exc)
        ELSE IF r.ok THEN Result(<<c1, c2>>, <<>>, Returned(r.payload, r.v))
        ELSE handler(<<c1, c2>>, r.exc)

list_workspace_admins(person_api, workspace_api, workspace_id, o1, o2) ==
    LET handler(cs, e) == ReturnError(cs, <<LogError(<<"Error listing workspace admins: ", e>>)>>, <<"Error listing workspace admins: ", e>>)
        b1 == CallOn(workspace_api, "get_configuration_for_workspace", o1)
        c1 == BackendCall(workspace_api, "get_configuration_for_workspace", <<workspace_id>>, <<>>, b1)
        b2 == CallOn(person_api, "list_workspace_admins", o2)
        c2 == BackendCall(person_api, "list_workspace_admins", <<workspace_id>>, <<>>, b2)
        r == NormalizeAndDump(b2)
    IN  IF b1.k = "raise"
        THEN handler(<<c1>>, b1.exc)
        ELSE IF b1.v = PyNone
        THEN ReturnError(<<c1>>, <<LogError(<<"Workspace ", Str(workspace_id), " not found">>)>>, <<"Workspace ", Str(workspace_id), " not found">>)
        ELSE IF r.ok THEN Result(<<c1, c2>>, <<>>, Returned(r.payload, r.v))
        ELSE handler(<<c1, c2>>, r.exc)

get_user(person_api, user_id, o1) ==
    LET handler(cs, e) == ReturnError(cs, <<LogError(<<"Error getting user ", Str(user_id), ": ", e>>)>>, <<"Error getting user ", Str(user_id), ": ", e>>)
        b1 == CallOn(person_api, "get_person", o1)
        c1 == BackendCall(person_api, "get_person", <<user_id>>, <<>>, b1)
        r == NormalizeAndDump(b1)
    IN  IF ~Truthy(user_id)
        THEN ReturnError(<<>>, <<>>, <<"user_id is required">>)
        ELSE IF r.ok THEN Result(<<c1>>, <<>>, Returned(r.payload, r.v))
        ELSE handler(<<c1>>, r.exc)

get_current_user(person_api, o1) ==
    LET handler(cs, e) == ReturnError(cs, <<LogError(<<"Error getting current user: ", e>>)>>, <<"Error getting current user: ", e>>)
        b1 == CallOn(person_api, "get_current_person", o1)
        c1 == BackendCall(person_api, "get_current_person", <<>>, <<>>, b1)
        r == NormalizeAndDump(b1)
    IN  IF r.ok THEN Result(<<c1>>, <<>>, Returned(r.payload, r.v))
        ELSE handler(<<c1>>, r.exc)

count_plans(plan_api, o1) ==
    LET handler(cs, e) == ReturnError(cs, <<LogError(<<"Error counting plans: ", e>>)>>, <<"Error counting plans: ", e>>)
        b1 == CallOn(plan_api, "count_plans", o1)
        c1 == BackendCall(plan_api, "count_plans", <<>>, <<>>, b1)
        r == NormalizeAndDump(b1)
    IN  IF r.ok THEN Result(<<c1>>, <<>>, Returned(r.payload, r.v))
        ELSE handler(<<c1>>, r.exc)

list_plans(plan_api, o1) ==
    LET handler(cs, e) == ReturnError(cs, <<LogError(<<"Error listing plans: ", e>>)>>, <<"Error listing plans: ", e>>)
        b1 == CallOn(plan_api, "list_plans", o1)
        c1 == BackendCall(plan_api, "list_plans", <<>>, <<>>, b1)
        r == NormalizeAndDump(b1)
    IN  IF r.ok THEN Result(<<c1>>, <<>>, Returned(r.payload, r.v))
        ELSE handler(<<c1>>, r.exc)

get_plan(plan_api, plan_id, o1) ==
    LET handler(cs, e) == ReturnError(cs, <<LogError(<<"Error getting plan ", Str(plan_id), ": ", e>>)>>, <<"Error getting plan ", Str(plan_id), ": ", e>>)
        b1 == CallOn(plan_api, "read_full", o1)
        c1 == BackendCall(plan_api, "read_full", <<plan_id>>, <<>>, b1)
        r == NormalizeAndDump(b1)
    IN  IF ~Truthy(plan_id)
        THEN ReturnError(<<>>, <<>>, <<"plan_id is required">>)
        ELSE IF r.ok THEN Result(<<c1>>, <<>>, Returned(r.payload, r.v))
        ELSE handler(<<c1>>, r.exc)

get_plan_schedules(plan_api, plan_id, o1, o2) ==
    LET handler(cs, e) == ReturnError(cs, <<LogError(<<"Error getting schedules for plan ", Str(plan_id), ": ", e>>)>>, <<"Error getting schedules for plan ", Str(plan_id), ": ", e>>)
        b1 == CallOn(plan_api, "read_full", o1)
        c1 == BackendCall(plan_api, "read_full", <<plan_id>>, <<>>, b1)
        b2 == CallOn(plan_api, "get_schedules_for_plan", o2)
        c2 == BackendCall(plan_api, "get_schedules_for_plan", <<plan_id>>, <<>>, b2)
        r == NormalizeAndDump(b2)
    IN  IF ~Truthy(plan_id)
        THEN ReturnError(<<>>, <<>>, <<"plan_id is required">>)
        ELSE IF b1.k = "raise"
        THEN handler(<<c1>>, b1.exc)
        ELSE IF b1.v = PyNone
        THEN ReturnError(<<c1>>, <<LogError(<<"Plan ", Str(plan_id), " not found">>)>>, <<"Plan ", Str(plan_id), " not found">>)
        ELSE IF r.ok THEN Result(<<c1, c2>>, <<>>, Returned(r.payload, r.v))
        ELSE handler(<<c1, c2>>, r.exc)

\* delete_plan with the check of the read's result left out
delete_plan_without_existence_check(plan_api, plan_id, o1, o2) ==
    LET handler(cs, e) == ReturnError(cs, <<LogError(<<"Error deleting plan ", Str(plan_id), ": ", e>>)>>, <<"Error deleting plan ", Str(plan_id), ": ", e>>)
        b1 == CallOn(plan_api, "read_full", o1)
        c1 == BackendCall(plan_api, "read_full", <<plan_id>>, <<>>, b1)
        b2 == CallOn(plan_api, "delete_plan", o2)
        c2 == BackendCall(plan_api, "delete_plan", <<plan_id>>, <<>>, b2)
        r == NormalizeAndDump(b2)
    IN  IF ~Truthy(plan_id)
        THEN ReturnError(<<>>, <<>>, <<"plan_id is required">>)
        ELSE IF b1.k = "raise"
        THEN handler(<<c1>>, b1.exc)
        ELSE IF r.ok THEN Result(<<c1, c2>>, <<>>, Returned(r.payload, r.v))
        ELSE handler(<<c1, c2>>, r.exc)

delete_plan(plan_api, plan_id, o1, o2) ==
    LET handler(cs, e) == ReturnError(cs, <<LogError(<<"Error deleting plan ", Str(plan_id), ": ", e>>)>>, <<"Error deleting plan ", Str(plan_id), ": ", e>>)
        b1 == CallOn(plan_api, "read_full", o1)
        c1 == BackendCall(plan_api, "read_full", <<plan_id>>, <<>>, b1)
        b2 == CallOn(plan_api, "delete_plan", o2)
        c2 == BackendCall(plan_api, "delete_plan", <<plan_id>>, <<>>, b2)
        r == NormalizeAndDump(b2)
    IN  IF ~Truthy(plan_id)
        THEN ReturnError(<<>>, <<>>, <<"plan_id is required">>)
        ELSE IF b1.k = "raise"
        THEN handler(<<c1>>, b1.exc)
        ELSE IF b1.v = PyNone
        THEN ReturnError(<<c1>>, <<LogError(<<"Plan ", Str(plan_id), " not found">>)>>, <<"Plan ", Str(plan_id), " not found">>)
        ELSE IF r.ok THEN Result(<<c1, c2>>, <<>>, Returned(r.payload, r.v))
        ELSE handler(<<c1, c2>>, r.exc)

run_plan(plan_api, plan_id, o1, o2) ==
    LET handler(cs, e) == ReturnError(cs, <<LogError(<<"Error running plan ", Str(plan_id), ": ", e>>)>>, <<"Error running plan ", Str(plan_id), ": ", e>>)
        b1 == CallOn(plan_api, "read_full", o1)
        c1 == BackendCall(plan_api, "read_full", <<plan_id>>, <<>>, b1)
        b2 == CallOn(plan_api, "run_plan", o2)
        c2 == BackendCall(plan_api, "run_plan", <<plan_id>>, <<>>, b2)
        r == NormalizeAndDump(b2)
    IN  IF ~Truthy(plan_id)
        THEN ReturnError(<<>>, <<>>, <<"plan_id is required">>)
        ELSE IF b1.k = "raise"
        THEN handler(<<c1>>, b1.exc)
        ELSE IF b1.v = PyNone
        THEN ReturnError(<<c1>>, <<LogError(<<"Plan ", Str(plan_id), " not found">>)>>, <<"Plan ", Str(plan_id), " not found">>)
        ELSE IF r.ok THEN Result(<<c1, c2>>, <<>>, Returned(r.payload, r.v))
        ELSE handler(<<c1, c2>>, r.exc)

\* list_datasets asking for the library without a filter or a page limit
list_datasets_unfiltered(dataset_api, o1) ==
    LET handler(cs, e) == ReturnError(cs, <<LogError(<<"Error listing datasets: ", e>>)>>, <<"Error listing datasets: ", e>>)
        b1 == CallOn(dataset_api, "list_dataset_library", o1)
        c1 == BackendCall(dataset_api, "list_dataset_library", <<>>, <<>>, b1)
        r == NormalizeAndDump(b1)
    IN  IF r.ok THEN Result(<<c1>>, <<>>, Returned(r.payload, r.v))
        ELSE handler(<<c1>>, r.exc)

list_datasets(dataset_api, o1) ==
    LET handler(cs, e) == ReturnError(cs, <<LogError(<<"Error listing datasets: ", e>>)>>, <<"Error listing datasets: ", e>>)
        b1 == CallOn(dataset_api, "list_dataset_library", o1)
        c1 == BackendCall(dataset_api, "list_dataset_library", <<>>, <<[name |-> "datasets_filter", value |-> S("all")], [name |-> "ownership_filter", value |-> S("all")], [name |-> "schematized", value |-> PyBool(FALSE)], [name |-> "limit", value |-> PyInt(100)]>>, b1)
        r == NormalizeAndDump(b1)
    IN  IF r.ok THEN Result(<<c1>>, <<>>, Returned(r.payload, r.v))
        ELSE handler(<<c1>>, r.exc)

get_dataset(dataset_api, dataset_id, o1) ==
    LET handler(cs, e) == ReturnError(cs, <<LogError(<<"Error getting dataset ", Str(dataset_id), ": ", e>>)>>, <<"Error getting dataset ", Str(dataset_id), ": ", e>>)
        b1 == CallOn(dataset_api, "get_imported_dataset", o1)
        c1 == BackendCall(dataset_api, "get_imported_dataset", <<dataset_id>>, <<>>, b1)
        r == NormalizeAndDump(b1)
    IN  IF ~Truthy(dataset_id)
        THEN ReturnError(<<>>, <<>>, <<"dataset_id is required">>)
        ELSE IF r.ok THEN Result(<<c1>>, <<>>, Returned(r.payload, r.v))
        ELSE handler(<<c1>>, r.exc)

list_connections(connection_api, o1) ==
    LET handler(cs, e) == ReturnError(cs, <<LogError(<<"Error listing connections: ", e>>)>>, <<"Error listing connections: ", e>>)
        b1 == CallOn(connection_api, "list_connections", o1)
        c1 == BackendCall(connection_api, "list_connections", <<>>, <<>>, b1)
        r == NormalizeAndDump(b1)
    IN  IF r.ok THEN Result(<<c1>>, <<>>, Returned(r.payload, r.v))
        ELSE handler(<<c1>>, r.exc)

get_connection(connection_api, connection_id, o1) ==
    LET handler(cs, e) == ReturnError(cs, <<LogError(<<"Error getting connection ", Str(connection_id), ": ", e>>)>>, <<"Error getting connection ", Str(connection_id), ": ", e>>)
        b1 == CallOn(connection_api, "get_connection", o1)
        c1 == BackendCall(connection_api, "get_connection", <<connection_id>>, <<>>, b1)
        r == NormalizeAndDump(b1)
    IN  IF ~Truthy(connection_id)
        THEN ReturnError(<<>>, <<>>, <<"connection_id is required">>)
        ELSE IF r.ok THEN Result(<<c1>>, <<>>, Returned(r.payload, r.v))
        ELSE handler(<<c1>>, r.exc)

\* get_connection_status reporting a read that raised as not found
get_connection_status_failed_read_as_not_found(connection_api, connection_id, o1, o2) ==
    LET handler(cs, e) == ReturnError(cs, <<LogError(<<"Error getting connection status ", Str(connection_id), ": ", e>>)>>, <<"Error getting connection status ", Str(connection_id), ": ", e>>)
        b1 == CallOn(connection_api, "get_connection", o1)
        c1 == BackendCall(connection_api, "get_connection", <<connection_id>>, <<>>, b1)
        b2 == CallOn(connection_api, "get_connection_status", o2)
        c2 == BackendCall(connection_api, "get_connection_status", <<connection_id>>, <<>>, b2)
        r == NormalizeAndDump(b2)
    IN  IF ~Truthy(connection_id)
        THEN ReturnError(<<>>, <<>>, <<"connection_id is required">>)
        ELSE IF b1.k = "raise"
        THEN ReturnError(<<c1>>, <<LogError(<<"Connection ", Str(connection_id), " not found">>)>>, <<"Connection ", Str(connection_id), " not found">>)
        ELSE IF b1.v = PyNone
        THEN ReturnError(<<c1>>, <<LogError(<<"Connection ", Str(connection_id), " not found">>)>>, <<"Connection ", Str(connection_id), " not found">>)
        ELSE IF r.ok THEN Result(<<c1, c2>>, <<>>, Returned(r.payload, r.v))
        ELSE handler(<<c1, c2>>, r.exc)

get_connection_status(connection_api, connection_id, o1, o2) ==
    LET handler(cs, e) == ReturnError(cs, <<LogError(<<"Error getting connection status ", Str(connection_id), ": ", e>>)>>, <<"Error getting connection status ", Str(connection_id), ": ", e>>)
        b1 == CallOn(connection_api, "get_connection", o1)
        c1 == BackendCall(connection_api, "get_connection", <<connection_id>>, <<>>, b1)
        b2 == CallOn(connection_api, "get_connection_status", o2)
        c2 == BackendCall(connection_api, "get_connection_status", <<connection_id>>, <<>>, b2)
        r == NormalizeAndDump(b2)
    IN  IF ~Truthy(connection_id)
        THEN ReturnError(<<>>, <<>>, <<"connection_id is required">>)
        ELSE IF b1.k = "raise"
        THEN handler(<<c1>>, b1.exc)
        ELSE IF b1.v = PyNone
        THEN ReturnError(<<c1>>, <<LogError(<<"Connection ", Str(connection_id), " not found">>)>>, <<"Connection ", Str(connection_id), " not found">>)
        ELSE IF r.ok THEN Result(<<c1, c2>>, <<>>, Returned(r.payload, r.v))
        ELSE handler(<<c1, c2>>, r.exc)

list_publications(publication_api, o1) ==
    LET handler(cs, e) == ReturnError(cs, <<LogError(<<"Error listing publications: ", e>>)>>, <<"Error listing publications: ", e>>)
        b1 == CallOn(publication_api, "list_publications", o1)
        c1 == BackendCall(publication_api, "list_publications", <<>>, <<[name |-> "limit", value |-> PyInt(100)]>>, b1)
        r == NormalizeAndDump(b1)
    IN  IF r.ok THEN Result(<<c1>>, <<>>, Returned(r.payload, r.v))
        ELSE handler(<<c1>>, r.exc)

get_publication(publication_api, publication_id, o1) ==
    LET handler(cs, e) == ReturnError(cs, <<LogError(<<"Error getting publication ", Str(publication_id), ": ", e>>)>>, <<"Error getting publication ", Str(publication_id), ": ", e>>)
        b1 == CallOn(publication_api, "get_publication", o1)
        c1 == BackendCall(publication_api, "get_publication", <<publication_id>>, <<[name |-> "embed", value |-> S("")]>>, b1)
        r == NormalizeAndDump(b1)
    IN  IF ~Truthy(publication_id)
        THEN ReturnError(<<>>, <<>>, <<"publication_id is required">>)
        ELSE IF r.ok THEN Result(<<c1>>, <<>>, Returned(r.payload, r.v))
        ELSE handler(<<c1>>, r.exc)

\* delete_publication deleting the publication named by what the read
\* returned instead of the one it was asked to delete
delete_publication_of_response(publication_api, publication_id, o1, o2) ==
    LET handler(cs, e) == ReturnError(cs, <<LogError(<<"Error deleting publication ", Str(publication_id), ": ", e>>)>>, <<"Error deleting publication ", Str(publication_id), ": ", e>>)
        b1 == CallOn(publication_api, "get_publication", o1)
        c1 == BackendCall(publication_api, "get_publication", <<publication_id>>, <<>>, b1)
        b2 == CallOn(publication_api, "delete_publication", o2)
        c2 == BackendCall(publication_api, "delete_publication", <<b1.v>>, <<>>, b2)
        r == NormalizeAndDump(b2)
    IN  IF ~Truthy(publication_id)
        THEN ReturnError(<<>>, <<>>, <<"publication_id is required">>)
        ELSE IF b1.k = "raise"
        THEN handler(<<c1>>, b1.exc)
        ELSE IF b1.v = PyNone
        THEN ReturnError(<<c1>>, <<LogError(<<"Publication ", Str(publication_id), " not found">>)>>, <<"Publication ", Str(publication_id), " not found">>)
        ELSE IF r.ok THEN Result(<<c1, c2>>, <<>>, Returned(r.payload, r.v))
        ELSE handler(<<c1, c2>>, r.exc)

delete_publication(publication_api, publication_id, o1, o2) ==
    LET handler(cs, e) == ReturnError(cs, <<LogError(<<"Error deleting publication ", Str(publication_id), ": ", e>>)>>, <<"Error deleting publication ", Str(publication_id), ": ", e>>)
        b1 == CallOn(publication_api, "get_publication", o1)
        c1 == BackendCall(publication_api, "get_publication", <<publication_id>>, <<>>, b1)
        b2 == CallOn(publication_api, "delete_publication", o2)
        c2 == BackendCall(publication_api, "delete_publication", <<publication_id>>, <<>>, b2)
        r == NormalizeAndDump(b2)
    IN  IF ~Truthy(publication_id)
        THEN ReturnError(<<>>, <<>>, <<"publication_id is required">>)
        ELSE IF b1.k = "raise"
        THEN handler(<<c1>>, b1.exc)
        ELSE IF b1.v = PyNone
        THEN ReturnError(<<c1>>, <<LogError(<<"Publication ", Str(publication_id), " not found">>)>>, <<"Publication ", Str(publication_id), " not found">>)
        ELSE IF r.ok THEN Result(<<c1, c2>>, <<>>, Returned(r.payload, r.v))
        ELSE handler(<<c1, c2>>, r.exc)

list_wrangled_datasets(wrangled_dataset_api, o1) ==
    LET handler(cs, e) == ReturnError(cs, <<LogError(<<"Error listing wrangled datasets: ", e>>)>>, <<"Error listing wrangled datasets: ", e>>)
        b1 == CallOn(wrangled_dataset_api, "list_wrangled_datasets", o1)
        c1 == BackendCall(wrangled_dataset_api, "list_wrangled_datasets", <<>>, <<>>, b1)
        r == NormalizeAndDump(b1)
    IN  IF r.ok THEN Result(<<c1>>, <<>>, Returned(r.payload, r.v))
        ELSE handler(<<c1>>, r.exc)

get_wrangled_dataset(wrangled_dataset_api, wrangled_dataset_id, o1) ==
    LET handler(cs, e) == ReturnError(cs, <<LogError(<<"Error getting wrangled dataset ", Str(wrangled_dataset_id), ": ", e>>)>>, <<"Error getting wrangled dataset ", Str(wrangled_dataset_id), ": ", e>>)
        b1 == CallOn(wrangled_dataset_api, "get_wrangled_dataset", o1)
        c1 == BackendCall(wrangled_dataset_api, "get_wrangled_dataset", <<wrangled_dataset_id>>, <<>>, b1)
        r == NormalizeAndDump(b1)
    IN  IF ~Truthy(wrangled_dataset_id)
        THEN ReturnError(<<>>, <<>>, <<"wrangled_dataset_id is required">>)
        ELSE IF r.ok THEN Result(<<c1>>, <<>>, Returned(r.payload, r.v))
        ELSE handler(<<c1>>, r.exc)

get_inputs_for_wrangled_dataset(wrangled_dataset_api, wrangled_dataset_id, o1, o2) ==
    LET handler(cs, e) == ReturnError(cs, <<LogError(<<"Error getting inputs for wrangled dataset ", Str(wrangled_dataset_id), ": ", e>>)>>, <<"Error getting inputs for wrangled dataset ", Str(wrangled_dataset_id), ": ", e>>)
        b1 == CallOn(wrangled_dataset_api, "get_wrangled_dataset", o1)
        c1 == BackendCall(wrangled_dataset_api, "get_wrangled_dataset", <<wrangled_dataset_id>>, <<>>, b1)
        b2 == CallOn(wrangled_dataset_api, "get_inputs_for_wrangled_dataset", o2)
        c2 == BackendCall(wrangled_dataset_api, "get_inputs_for_wrangled_dataset", <<wrangled_dataset_id>>, <<>>, b2)
        r == NormalizeAndDump(b2)
    IN  IF ~Truthy(wrangled_dataset_id)
        THEN ReturnError(<<>>, <<>>, <<"wrangled_dataset_id is required">>)
        ELSE IF b1.k = "raise"
        THEN handler(<<c1>>, b1.exc)
        ELSE IF b1.v = PyNone
        THEN ReturnError(<<c1>>, <<LogError(<<"Wrangled dataset ", Str(wrangled_dataset_id), " not found">>)>>, <<"Wrangled dataset ", Str(wrangled_dataset_id), " not found">>)
        ELSE IF r.ok THEN Result(<<c1, c2>>, <<>>, Returned(r.payload, r.v))
        ELSE handler(<<c1, c2>>, r.exc)

----------------------------------------------------------------------------
(* The tool functions of src/aac_mcp/tools.py.                             *)

aac_mcp_list_schedules(schedule_api, o1) ==
    LET handler(cs, e) == ReturnError(cs, <<LogError(<<"Error listing schedules: ", e>>)>>, <<"Error listing schedules: ", e>>)
        b1 == CallOn(schedule_api, "list_schedules", o1)
        c1 == BackendCall(schedule_api, "list_schedules", <<>>, <<>>, b1)
        r == NormalizeAndDump(b1)
    IN  IF r.ok THEN Result(<<c1>>, <<>>, Returned(r.payload, r.v))
        ELSE handler(<<c1>>, r.exc)

aac_mcp_get_schedule(schedule_api, schedule_id, o1) ==
    LET handler(cs, e) == ReturnError(cs, <<LogError(<<"Error getting schedule ", Str(schedule_id), ": ", e>>)>>, <<"Error getting schedule ", Str(schedule_id), ": ", e>>)
        b1 == CallOn(schedule_api, "get_schedule", o1)
        c1 == BackendCall(schedule_api, "get_schedule", <<schedule_id>>, <<>>, b1)
        r == NormalizeAndDump(b1)
    IN  IF ~Truthy(schedule_id)
        THEN ReturnError(<<>>, <<>>, <<"schedule_id is required">>)
        ELSE IF r.ok THEN Result(<<c1>>, <<>>, Returned(r.payload, r.v))
        ELSE handler(<<c1>>, r.exc)

aac_mcp_delete_schedule(schedule_api, schedule_id, o1, o2) ==
    LET handler(cs, e) == ReturnError(cs, <<LogError(<<"Error deleting schedule ", Str(schedule_id), ": ", e>>)>>, <<"Error deleting schedule ", Str(schedule_id), ": ", e>>)
        b1 == CallOn(schedule_api, "get_schedule", o1)
        c1 == BackendCall(schedule_api, "get_schedule", <<schedule_id>>, <<>>, b1)
        g == Get(b1.v, "enabled", PyBool(FALSE))
        b2 == CallOn(schedule_api, "delete_schedule", o2)
        c2 == BackendCall(schedule_api, "delete_schedule", <<schedule_id>>, <<>>, b2)
        r == NormalizeAndDump(b2)
    IN  IF ~Truthy(schedule_id)
        THEN ReturnError(<<>>, <<>>, <<"schedule_id is required">>)
        ELSE IF b1.k = "raise"
        THEN handler(<<c1>>, b1.exc)
        ELSE IF b1.v = PyNone
        THEN ReturnError(<<c1>>, <<LogError(<<"Schedule ", Str(schedule_id), " not found">>)>>, <<"Schedule ", Str(schedule_id), " not found">>)
        ELSE IF ~g.ok
        THEN handler(<<c1>>, g.exc)
        ELSE IF Truthy(g.v)
        THEN ReturnError(<<c1>>, <<LogError(<<"Schedule ", Str(schedule_id), " is currently enabled and cannot be deleted">>)>>, <<"Schedule ", Str(schedule_id), " is currently enabled and cannot be deleted">>)
        ELSE IF r.ok THEN Result(<<c1, c2>>, <<>>, Returned(r.payload, r.v))
        ELSE handler(<<c1, c2>>, r.exc)

aac_mcp_enable_schedule(schedule_api, schedule_id, o1, o2) ==
    LET handler(cs, e) == ReturnError(cs, <<LogError(<<"Error enabling schedule ", Str(schedule_id), ": ", e>>)>>, <<"Error enabling schedule ", Str(schedule_id), ": ", e>>)
        b1 == CallOn(schedule_api, "get_schedule", o1)
        c1 == BackendCall(schedule_api, "get_schedule", <<schedule_id>>, <<>>, b1)
        b2 == CallOn(schedule_api, "enable_schedule", o2)
        c2 == BackendCall(schedule_api, "enable_schedule", <<schedule_id>>, <<>>, b2)
        r == NormalizeAndDump(b2)
    IN  IF ~Truthy(schedule_id)
        THEN ReturnError(<<>>, <<>>, <<"schedule_id is required">>)
        ELSE IF b1.k = "raise"
        THEN handler(<<c1>>, b1.exc)
        ELSE IF b1.v = PyNone
        THEN ReturnError(<<c1>>, <<LogError(<<"Schedule ", Str(schedule_id), " not found">>)>>, <<"Schedule ", Str(schedule_id), " not found">>)
        ELSE IF r.ok THEN Result(<<c1, c2>>, <<>>, Returned(r.payload, r.v))
        ELSE handler(<<c1, c2>>, r.exc)

aac_mcp_disable_schedule(schedule_api, schedule_id, o1, o2) ==
    LET handler(cs, e) == ReturnError(cs, <<LogError(<<"Error disabling schedule ", Str(schedule_id), ": ", e>>)>>, <<"Error disabling schedule ", Str(schedule_id), ": ", e>>)
        b1 == CallOn(schedule_api, "get_schedule", o1)
        c1 == BackendCall(schedule_api, "get_schedule", <<schedule_id>>, <<>>, b1)
        b2 == CallOn(schedule_api, "disable_schedule", o2)
        c2 == BackendCall(schedule_api, "disable_schedule", <<schedule_id>>, <<>>, b2)
        r == NormalizeAndDump(b2)
    IN  IF ~Truthy(schedule_id)
        THEN ReturnError(<<>>, <<>>, <<"schedule_id is required">>)
        ELSE IF b1.k = "raise"
        THEN handler(<<c1>>, b1.exc)
        ELSE IF b1.v = PyNone
        THEN ReturnError(<<c1>>, <<LogError(<<"Schedule ", Str(schedule_id), " not found">>)>>, <<"Schedule ", Str(schedule_id), " not found">>)
        ELSE IF r.ok THEN Result(<<c1, c2>>, <<>>, Returned(r.payload, r.v))
        ELSE handler(<<c1, c2>>, r.exc)

aac_mcp_count_schedules(schedule_api, o1) ==
    LET handler(cs, e) == ReturnError(cs, <<LogError(<<"Error counting schedules: ", e>>)>>, <<"Error counting schedules: ", e>>)
        b1 == CallOn(schedule_api, "count_schedules", o1)
        c1 == BackendCall(schedule_api, "count_schedules", <<>>, <<>>, b1)
        r == NormalizeAndDump(b1)
    IN  IF r.ok THEN Result(<<c1>>, <<>>, Returned(r.payload, r.v))
        ELSE handler(<<c1>>, r.exc)

aac_mcp_get_current_workspace(workspace_api, o1) ==
    LET handler(cs, e) == ReturnError(cs, <<LogError(<<"Error getting current workspace: ", e>>)>>, <<"Error getting current workspace: ", e>>)
        b1 == CallOn(workspace_api, "read_current_workspace", o1)
        c1 == BackendCall(workspace_api, "read_current_workspace", <<>>, <<>>, b1)
        r == NormalizeAndDump(b1)
    IN  IF r.ok THEN Result(<<c1>>, <<>>, Returned(r.payload, r.v))
        ELSE handler(<<c1>>, r.exc)

aac_mcp_get_workspace_configuration(workspace_api, workspace_id, o1) ==
    LET handler(cs, e) == ReturnError(cs, <<LogError(<<"Error getting workspace configuration for ", Str(workspace_id), ": ", e>>)>>, <<"Error getting workspace configuration for ", Str(workspace_id), ": ", e>>)
        b1 == CallOn(workspace_api, "get_configuration_for_workspace", o1)
        c1 == BackendCall(workspace_api, "get_configuration_for_workspace", <<workspace_id>>, <<>>, b1)
        r == NormalizeAndDump(b1)
    IN  IF r.ok THEN Result(<<c1>>, <<>>, Returned(r.payload, r.v))
        ELSE handler(<<c1>>, r.exc)

aac_mcp_list_workspace_users(workspace_api, workspace_id, o1, o2) ==
    LET handler(cs, e) == ReturnError(cs, <<LogError(<<"Error listing workspace users: ", e>>)>>, <<"Error listing workspace users: ", e>>)
        b1 == CallOn(workspace_api, "get_workspace", o1)
        c1 == BackendCall(workspace_api, "get_workspace", <<workspace_id>>, <<>>, b1)
        b2 == CallOn(workspace_api, "list_workspace_users", o2)
        c2 == BackendCall(workspace_api, "list_workspace_users", <<workspace_id>>, <<>>, b2)
        r == NormalizeAndDump(b2)
    IN  IF b1.k = "raise"
        THEN handler(<<c1>>, b1.exc)
        ELSE IF b1.v = PyNone
        THEN ReturnError(<<c1>>, <<LogError(<<"Workspace ", Str(workspace_id), " not found">>)>>, <<"Workspace ", Str(workspace_id), " not found">>)
        ELSE IF r.ok THEN Result(<<c1, c2>>, <<>>, Returned(r.payload, r.v))
        ELSE handler(<<c1, c2>>, r.exc)

aac_mcp_list_workspace_admins(person_api, workspace_api, workspace_id, o1, o2) ==
    LET handler(cs, e) == ReturnError(cs, <<LogError(<<"Error listing workspace admins: ", e>>)>>, <<"Error listing workspace admins: ", e>>)
        b1 == CallOn(workspace_api, "get_configuration_for_workspace", o1)
        c1 == BackendCall(workspace_api, "get_configuration_for_workspace", <<workspace_id>>, <<>>, b1)
        b2 == CallOn(person_api, "list_workspace_admins", o2)
        c2 == BackendCall(person_api, "list_workspace_admins", <<workspace_id>>, <<>>, b2)
        r == NormalizeAndDump(b2)
    IN  IF b1.k = "raise"
        THEN handler(<<c1>>, b1.exc)
        ELSE IF b1.v = PyNone
        THEN ReturnError(<<c1>>, <<LogError(<<"Workspace ", Str(workspace_id), " not found">>)>>, <<"Workspace ", Str(workspace_id), " not found">>)
        ELSE IF r.ok THEN Result(<<c1, c2>>, <<>>, Returned(r.payload, r.v))
        ELSE handler(<<c1, c2>>, r.exc)

aac_mcp_get_user(person_api, user_id, o1) ==
    LET handler(cs, e) == ReturnError(cs, <<LogError(<<"Error getting user ", Str(user_id), ": ", e>>)>>, <<"Error getting user ", Str(user_id), ": ", e>>)
        b1 == CallOn(person_api, "get_person", o1)
        c1 == BackendCall(person_api, "get_person", <<user_id>>, <<>>, b1)
        r == NormalizeAndDump(b1)
    IN  IF ~Truthy(user_id)
        THEN ReturnError(<<>>, <<>>, <<"user_id is required">>)
        ELSE IF r.ok THEN Result(<<c1>>, <<>>, Returned(r.payload, r.v))
        ELSE handler(<<c1>>, r.exc)

aac_mcp_count_plans(plan_api, o1) ==
    LET handler(cs, e) == ReturnError(cs, <<LogError(<<"Error counting plans: ", e>>)>>, <<"Error counting plans: ", e>>)
        b1 == CallOn(plan_api, "count_plans", o1)
        c1 == BackendCall(plan_api, "count_plans", <<>>, <<>>, b1)
        r == NormalizeAndDump(b1)
    IN  IF r.ok THEN Result(<<c1>>, <<>>, Returned(r.payload, r.v))
        ELSE handler(<<c1>>, r.exc)

aac_mcp_list_plans(plan_api, o1) ==
    LET handler(cs, e) == ReturnError(cs, <<LogError(<<"Error listing plans: ", e>>)>>, <<"Error listing plans: ", e>>)
        b1 == CallOn(plan_api, "list_plans", o1)
        c1 == BackendCall(plan_api, "list_plans", <<>>, <<>>, b1)
        r == NormalizeAndDump(b1)
    IN  IF r.ok THEN Result(<<c1>>, <<>>, Returned(r.payload, r.v))
        ELSE handler(<<c1>>, r.exc)

aac_mcp_get_plan(plan_api, plan_id, o1) ==
    LET handler(cs, e) == ReturnError(cs, <<LogError(<<"Error getting plan ", Str(plan_id), ": ", e>>)>>, <<"Error getting plan ", Str(plan_id), ": ", e>>)
        b1 == CallOn(plan_api, "read_full", o1)
        c1 == BackendCall(plan_api, "read_full", <<plan_id>>, <<>>, b1)
        r == NormalizeAndDump(b1)
    IN  IF ~Truthy(plan_id)
        THEN ReturnError(<<>>, <<>>, <<"plan_id is required">>)
        ELSE IF r.ok THEN Result(<<c1>>, <<>>, Returned(r.payload, r.v))
        ELSE handler(<<c1>>, r.exc)

\* get_plan_schedules running the plan to obtain its schedules
aac_mcp_get_plan_schedules_running_plan(plan_api, plan_id, o1, o2) ==
    LET handler(cs, e) == ReturnError(cs, <<LogError(<<"Error getting schedules for plan ", Str(plan_id), ": ", e>>)>>, <<"Error getting schedules for plan ", Str(plan_id), ": ", e>>)
        b1 == CallOn(plan_api, "read_full", o1)
        c1 == BackendCall(plan_api, "read_full", <<plan_id>>, <<>>, b1)
        b2 == CallOn(plan_api, "run_plan", o2)
        c2 == BackendCall(plan_api, "run_plan", <<plan_id>>, <<>>, b2)
        r == NormalizeAndDump(b2)
    IN  IF ~Truthy(plan_id)
        THEN ReturnError(<<>>, <<>>, <<"plan_id is required">>)
        ELSE IF b1.k = "raise"
        THEN handler(<<c1>>, b1.exc)
        ELSE IF b1.v = PyNone
        THEN ReturnError(<<c1>>, <<LogError(<<"Plan ", Str(plan_id), " not found">>)>>, <<"Plan ", Str(plan_id), " not found">>)
        ELSE IF r.ok THEN Result(<<c1, c2>>, <<>>, Returned(r.payload, r.v))
        ELSE handler(<<c1, c2>>, r.exc)

aac_mcp_get_plan_schedules(plan_api, plan_id, o1, o2) ==
    LET handler(cs, e) == ReturnError(cs, <<LogError(<<"Error getting schedules for plan ", Str(plan_id), ": ", e>>)>>, <<"Error getting schedules for plan ", Str(plan_id), ": ", e>>)
        b1 == CallOn(plan_api, "read_full", o1)
        c1 == BackendCall(plan_api, "read_full", <<plan_id>>, <<>>, b1)
        b2 == CallOn(plan_api, "get_schedules_for_plan", o2)
        c2 == BackendCall(plan_api, "get_schedules_for_plan", <<plan_id>>, <<>>, b2)
        r == NormalizeAndDump(b2)
    IN  IF ~Truthy(plan_id)
        THEN ReturnError(<<>>, <<>>, <<"plan_id is required">>)
        ELSE IF b1.k = "raise"
        THEN handler(<<c1>>, b1.exc)
        ELSE IF b1.v = PyNone
        THEN ReturnError(<<c1>>, <<LogError(<<"Plan ", Str(plan_id), " not found">>)>>, <<"Plan ", Str(plan_id), " not found">>)
        ELSE IF r.ok THEN Result(<<c1, c2>>, <<>>, Returned(r.payload, r.v))
        ELSE handler(<<c1, c2>>, r.exc)

aac_mcp_delete_plan(plan_api, plan_id, o1, o2) ==
    LET handler(cs, e) == ReturnError(cs, <<LogError(<<"Error deleting plan ", Str(plan_id), ": ", e>>)>>, <<"Error deleting plan ", Str(plan_id), ": ", e>>)
        b1 == CallOn(plan_api, "read_full", o1)
        c1 == BackendCall(plan_api, "read_full", <<plan_id>>, <<>>, b1)
        b2 == CallOn(plan_api, "delete_plan", o2)
        c2 == BackendCall(plan_api, "delete_plan", <<plan_id>>, <<>>, b2)
        r == NormalizeAndDump(b2)
    IN  IF ~Truthy(plan_id)
        THEN ReturnError(<<>>, <<>>, <<"plan_id is required">>)
        ELSE IF b1.k = "raise"
        THEN handler(<<c1>>, b1.exc)
        ELSE IF b1.v = PyNone
        THEN ReturnError(<<c1>>, <<LogError(<<"Plan ", Str(plan_id), " not found">>)>>, <<"Plan ", Str(plan_id), " not found">>)
        ELSE IF r.ok THEN Result(<<c1, c2>>, <<>>, Returned(r.payload, r.v))
        ELSE handler(<<c1, c2>>, r.exc)

aac_mcp_run_plan(plan_api, plan_id, o1, o2) ==
    LET handler(cs, e) == ReturnError(cs, <<LogError(<<"Error running plan ", Str(plan_id), ": ", e>>)>>, <<"Error running plan ", Str(plan_id), ": ", e>>)
        b1 == CallOn(plan_api, "read_full", o1)
        c1 == BackendCall(plan_api, "read_full", <<plan_id>>, <<>>, b1)
        b2 == CallOn(plan_api, "run_plan", o2)
        c2 == BackendCall(plan_api, "run_plan", <<plan_id>>, <<>>, b2)
        r == NormalizeAndDump(b2)
    IN  IF ~Truthy(plan_id)
        THEN ReturnError(<<>>, <<>>, <<"plan_id is required">>)
        ELSE IF b1.k = "raise"
        THEN handler(<<c1>>, b1.exc)
        ELSE IF b1.v = PyNone
        THEN ReturnError(<<c1>>, <<LogError(<<"Plan ", Str(plan_id), " not found">>)>>, <<"Plan ", Str(plan_id), " not found">>)
        ELSE IF r.ok THEN Result(<<c1, c2>>, <<>>, Returned(r.payload, r.v))
        ELSE handler(<<c1, c2>>, r.exc)

----------------------------------------------------------------------------
(* AACMCPServer (src/aac_mcp/server.py).                                   *)

\* Configuration(): the one configuration source, read from the environment
Configuration == [cls |-> "Configuration"]
\* ApiClient(config)
ApiClient(config) == [cls |-> "ApiClient", config |-> config]
\* an API handle class instantiated on an API client
Api(cls, client) == [cls |-> cls, client |-> client]

\* The names defined by the module the server binds to the name tools
\* (from . import tools): the functions of src/aac_mcp/tools.py.
aac_mcp_tools ==
    {"list_schedules",
     "get_schedule",
     "delete_schedule",
     "enable_schedule",
     "disable_schedule",
     "count_schedules",
     "get_current_workspace",
     "get_workspace_configuration",
     "list_workspace_users",
     "list_workspace_admins",
     "get_user",
     "count_plans",
     "list_plans",
     "get_plan",
     "get_plan_schedules",
     "delete_plan",
     "run_plan"}

\* tools.<name> for a name the module does not define raises AttributeError
\* before any tool function runs.
ToolsAttributeError(name) ==
    Escaped("module 'src.aac_mcp.tools' has no attribute '" \o name \o "'")

\* the attributes __init__ sets
AACMCPServer ==
    [config |-> Configuration,
     schedule_api |-> Api("ScheduleApi", ApiClient(Configuration)),
     workspace_api |-> Api("WorkspaceApi", ApiClient(Configuration)),
     person_api |-> Api("PersonApi", ApiClient(Configuration)),
     plan_api |-> Api("PlanApi", ApiClient(Configuration)),
     legacy_person_api |-> Api("LegacyPersonApi", ApiClient(Configuration)),
     legacy_workspace_api |-> Api("LegacyWorkspaceApi", ApiClient(Configuration)),
     legacy_imported_dataset_api |-> Api("LegacyImportedDatasetApi", ApiClient(Configuration)),
     legacy_connection_api |-> Api("LegacyConnectionApi", ApiClient(Configuration)),
     legacy_publication_api |-> Api("LegacyPublicationApi", ApiClient(Configuration)),
     legacy_wrangled_dataset_api |-> Api("LegacyWrangledDatasetApi", ApiClient(Configuration))]

_initialize_client(self) ==
    [config |-> Configuration,
     schedule_api |-> Api("ScheduleApi", ApiClient(Configuration)),
     workspace_api |-> Api("WorkspaceApi", ApiClient(Configuration)),
     person_api |-> Api("PersonApi", ApiClient(Configuration)),
     plan_api |-> Api("PlanApi", ApiClient(Configuration)),
     legacy_person_api |-> Api("LegacyPersonApi", ApiClient(Configuration)),
     legacy_workspace_api |-> Api("LegacyWorkspaceApi", ApiClient(Configuration)),
     legacy_imported_dataset_api |-> Api("LegacyImportedDatasetApi", ApiClient(Configuration)),
     legacy_connection_api |-> Api("LegacyConnectionApi", ApiClient(Configuration)),
     legacy_publication_api |-> Api("LegacyPublicationApi", ApiClient(Configuration)),
     legacy_wrangled_dataset_api |-> Api("LegacyWrangledDatasetApi", ApiClient(Configuration))]

_ensure_client_initialized(self) ==
    IF self.schedule_api = PyNone THEN _initialize_client(self) ELSE self

\* a tool function's result, the server's handles closed and dropped once
\* the function has run
WithServer_closing_handles(self, r) ==
    [server |-> [a \in DOMAIN self |-> IF a = "config" THEN self[a] ELSE PyNone],
     calls |-> r.calls, log |-> r.log, out |-> r.out]

\* a tool function's result together with the server it ran against
WithServer(self, r) ==
    [server |-> self, calls |-> r.calls, log |-> r.log, out |-> r.out]

\* The tools _register_tools registers: each ensures the handles exist and
\* delegates to the function of that name in the tools module.

registered_list_schedules(self, b1) ==
    LET s == _ensure_client_initialized(self)
    IN  IF "list_schedules" \in aac_mcp_tools
        THEN WithServer(s, aac_mcp_list_schedules(s.schedule_api, b1))
        ELSE WithServer(s, Result(<<>>, <<>>, ToolsAttributeError("list_schedules")))

registered_get_schedule(self, schedule_id, b1) ==
    LET s == _ensure_client_initialized(self)
    IN  IF "get_schedule" \in aac_mcp_tools
        THEN WithServer(s, aac_mcp_get_schedule(s.schedule_api, schedule_id, b1))
        ELSE WithServer(s, Result(<<>>, <<>>, ToolsAttributeError("get_schedule")))

\* tools.update_schedule is not defined by src/aac_mcp/tools.py
registered_update_schedule(self, schedule_id, schedule_data) ==
    LET s == _ensure_client_initialized(self)
    IN  WithServer(s, Result(<<>>, <<>>, ToolsAttributeError("update_schedule")))

registered_delete_schedule(self, schedule_id, b1, b2) ==
    LET s == _ensure_client_initialized(self)
    IN  IF "delete_schedule" \in aac_mcp_tools
        THEN WithServer(s, aac_mcp_delete_schedule(s.schedule_api, schedule_id, b1, b2))
        ELSE WithServer(s, Result(<<>>, <<>>, ToolsAttributeError("delete_schedule")))

registered_enable_schedule(self, schedule_id, b1, b2) ==
    LET s == _ensure_client_initialized(self)
    IN  IF "enable_schedule" \in aac_mcp_tools
        THEN WithServer(s, aac_mcp_enable_schedule(s.schedule_api, schedule_id, b1, b2))
        ELSE WithServer(s, Result(<<>>, <<>>, ToolsAttributeError("enable_schedule")))

registered_disable_schedule(self, schedule_id, b1, b2) ==
    LET s == _ensure_client_initialized(self)
    IN  IF "disable_schedule" \in aac_mcp_tools
        THEN WithServer(s, aac_mcp_disable_schedule(s.schedule_api, schedule_id, b1, b2))
        ELSE WithServer(s, Result(<<>>, <<>>, ToolsAttributeError("disable_schedule")))

registered_count_schedules(self, b1) ==
    LET s == _ensure_client_initialized(self)
    IN  IF "count_schedules" \in aac_mcp_tools
        THEN WithServer(s, aac_mcp_count_schedules(s.schedule_api, b1))
        ELSE WithServer(s, Result(<<>>, <<>>, ToolsAttributeError("count_schedules")))

registered_list_plans(self, b1) ==
    LET s == _ensure_client_initialized(self)
    IN  IF "list_plans" \in aac_mcp_tools
        THEN WithServer(s, aac_mcp_list_plans(s.plan_api, b1))
        ELSE WithServer(s, Result(<<>>, <<>>, ToolsAttributeError("list_plans")))

registered_count_plans(self, b1) ==
    LET s == _ensure_client_initialized(self)
    IN  IF "count_plans" \in aac_mcp_tools
        THEN WithServer(s, aac_mcp_count_plans(s.plan_api, b1))
        ELSE WithServer(s, Result(<<>>, <<>>, ToolsAttributeError("count_plans")))

registered_get_plan(self, plan_id, b1) ==
    LET s == _ensure_client_initialized(self)
    IN  IF "get_plan" \in aac_mcp_tools
        THEN WithServer(s, aac_mcp_get_plan(s.plan_api, plan_id, b1))
        ELSE WithServer(s, Result(<<>>, <<>>, ToolsAttributeError("get_plan")))

registered_delete_plan(self, plan_id, b1, b2) ==
    LET s == _ensure_client_initialized(self)
    IN  IF "delete_plan" \in aac_mcp_tools
        THEN WithServer(s, aac_mcp_delete_plan(s.plan_api, plan_id, b1, b2))
        ELSE WithServer(s, Result(<<>>, <<>>, ToolsAttributeError("delete_plan")))

registered_get_plan_schedules(self, plan_id, b1, b2) ==
    LET s == _ensure_client_initialized(self)
    IN  IF "get_plan_schedules" \in aac_mcp_tools
        THEN WithServer(s, aac_mcp_get_plan_schedules(s.plan_api, plan_id, b1, b2))
        ELSE WithServer(s, Result(<<>>, <<>>, ToolsAttributeError("get_plan_schedules")))

registered_run_plan(self, plan_id, b1, b2) ==
    LET s == _ensure_client_initialized(self)
    IN  IF "run_plan" \in aac_mcp_tools
        THEN WithServer(s, aac_mcp_run_plan(s.plan_api, plan_id, b1, b2))
        ELSE WithServer(s, Result(<<>>, <<>>, ToolsAttributeError("run_plan")))

\* tools.list_workspaces is not defined by src/aac_mcp/tools.py
registered_list_workspaces(self) ==
    LET s == _ensure_client_initialized(self)
    IN  WithServer(s, Result(<<>>, <<>>, ToolsAttributeError("list_workspaces")))

registered_get_current_workspace(self, b1) ==
    LET s == _ensure_client_initialized(self)
    IN  IF "get_current_workspace" \in aac_mcp_tools
        THEN WithServer(s, aac_mcp_get_current_workspace(s.workspace_api, b1))
        ELSE WithServer(s, Result(<<>>, <<>>, ToolsAttributeError("get_current_workspace")))

registered_get_workspace_configuration(self, workspace_id, b1) ==
    LET s == _ensure_client_initialized(self)
    IN  IF "get_workspace_configuration" \in aac_mcp_tools
        THEN WithServer(s, aac_mcp_get_workspace_configuration(s.workspace_api, workspace_id, b1))
        ELSE WithServer(s, Result(<<>>, <<>>, ToolsAttributeError("get_workspace_configuration")))

registered_list_workspace_users(self, workspace_id, b1, b2) ==
    LET s == _ensure_client_initialized(self)
    IN  IF "list_workspace_users" \in aac_mcp_tools
        THEN WithServer(s, aac_mcp_list_workspace_users(s.workspace_api, workspace_id, b1, b2))
        ELSE WithServer(s, Result(<<>>, <<>>, ToolsAttributeError("list_workspace_users")))

registered_list_workspace_admins(self, workspace_id, b1, b2) ==
    LET s == _ensure_client_initialized(self)
    IN  IF "list_workspace_admins" \in aac_mcp_tools
        THEN WithServer(s, aac_mcp_list_workspace_admins(s.person_api, s.workspace_api, workspace_id, b1, b2))
        ELSE WithServer(s, Result(<<>>, <<>>, ToolsAttributeError("list_workspace_admins")))

\* tools.get_current_user is not defined by src/aac_mcp/tools.py
registered_get_current_user(self) ==
    LET s == _ensure_client_initialized(self)
    IN  WithServer(s, Result(<<>>, <<>>, ToolsAttributeError("get_current_user")))

registered_get_user(self, user_id, b1) ==
    LET s == _ensure_client_initialized(self)
    IN  IF "get_user" \in aac_mcp_tools
        THEN WithServer(s, aac_mcp_get_user(s.person_api, user_id, b1))
        ELSE WithServer(s, Result(<<>>, <<>>, ToolsAttributeError("get_user")))

\* tools.list_datasets is not defined by src/aac_mcp/tools.py
registered_list_datasets(self) ==
    LET s == _ensure_client_initialized(self)
    IN  WithServer(s, Result(<<>>, <<>>, ToolsAttributeError("list_datasets")))

\* tools.get_dataset is not defined by src/aac_mcp/tools.py
registered_get_dataset(self, dataset_id) ==
    LET s == _ensure_client_initialized(self)
    IN  WithServer(s, Result(<<>>, <<>>, ToolsAttributeError("get_dataset")))

\* tools.list_connections is not defined by src/aac_mcp/tools.py
registered_list_connections(self) ==
    LET s == _ensure_client_initialized(self)
    IN  WithServer(s, Result(<<>>, <<>>, ToolsAttributeError("list_connections")))

\* tools.get_connection is not defined by src/aac_mcp/tools.py
registered_get_connection(self, connection_id) ==
    LET s == _ensure_client_initialized(self)
    IN  WithServer(s, Result(<<>>, <<>>, ToolsAttributeError("get_connection")))

\* tools.get_connection_status is not defined by src/aac_mcp/tools.py
registered_get_connection_status(self, connection_id) ==
    LET s == _ensure_client_initialized(self)
    IN  WithServer(s, Result(<<>>, <<>>, ToolsAttributeError("get_connection_status")))

\* tools.list_publications is not defined by src/aac_mcp/tools.py
registered_list_publications(self) ==
    LET s == _ensure_client_initialized(self)
    IN  WithServer(s, Result(<<>>, <<>>, ToolsAttributeError("list_publications")))

\* tools.get_publication is not defined by src/aac_mcp/tools.py
registered_get_publication(self, publication_id) ==
    LET s == _ensure_client_initialized(self)
    IN  WithServer(s, Result(<<>>, <<>>, ToolsAttributeError("get_publication")))

\* tools.delete_publication is not defined by src/aac_mcp/tools.py
registered_delete_publication(self, publication_id) ==
    LET s == _ensure_client_initialized(self)
    IN  WithServer(s, Result(<<>>, <<>>, ToolsAttributeError("delete_publication")))

\* tools.list_wrangled_datasets is not defined by src/aac_mcp/tools.py
registered_list_wrangled_datasets(self) ==
    LET s == _ensure_client_initialized(self)
    IN  WithServer(s, Result(<<>>, <<>>, ToolsAttributeError("list_wrangled_datasets")))

\* tools.get_wrangled_dataset is not defined by src/aac_mcp/tools.py
registered_get_wrangled_dataset(self, wrangled_dataset_id) ==
    LET s == _ensure_client_initialized(self)
    IN  WithServer(s, Result(<<>>, <<>>, ToolsAttributeError("get_wrangled_dataset")))

\* tools.get_inputs_for_wrangled_dataset is not defined by src/aac_mcp/tools.py
registered_get_inputs_for_wrangled_dataset(self, wrangled_dataset_id) ==
    LET s == _ensure_client_initialized(self)
    IN  WithServer(s, Result(<<>>, <<>>, ToolsAttributeError("get_inputs_for_wrangled_dataset")))

----------------------------------------------------------------------------
(* The state machine.                                                      *)

NoOut == [t |-> "none"]
NoFirst == [t |-> "none"]
NoLocals == [t |-> "none"]

\* The invocations the host may have in progress at once.
Threads == 1..NumThreads

\* After construction: the handles built by __init__, no invocation yet.
Init ==
    /\ server = AACMCPServer
    /\ phase = "idle"
    /\ tool = ""
    /\ entry = ""
    /\ args = <<>>
    /\ calls = <<>>
    /\ log = <<>>
    /\ out = NoOut
    /\ started = FALSE
    /\ constructions = 1
    /\ clears = 0
    /\ pc = [t \in Threads |-> "idle"]
    /\ first = NoFirst
    /\ locals = [t \in Threads |-> NoLocals]
    /\ platform = [id \in Ids |-> [enabled |-> FALSE]]
    /\ main = [pc |-> "parse_args"]

\* An invocation of tool name through entry e with arguments a ran to
\* completion with result r.
Respond(name, e, a, r) ==
    /\ phase' = "returned"
    /\ tool' = name
    /\ entry' = e
    /\ args' = a
    /\ server' = r.server
    /\ calls' = r.calls
    /\ log' = r.log
    /\ out' = r.out
    /\ started' = TRUE
    /\ constructions' =
            IF e = "aac_mcp.server" /\ server.schedule_api = PyNone
            THEN constructions + 1 ELSE constructions
    /\ UNCHANGED <<clears, pc, first, locals, platform, main>>

\* The caller takes the result; nothing of the invocation persists.
Deliver ==
    /\ phase = "returned"
    /\ phase' = "idle"
    /\ tool' = ""
    /\ entry' = ""
    /\ args' = <<>>
    /\ calls' = <<>>
    /\ log' = <<>>
    /\ out' = NoOut
    /\ UNCHANGED <<server, started, constructions, clears, pc, first, locals, platform,
                   main>>


Call_list_schedules ==
    /\ phase = "idle"
    /\ \E b1 \in Outcomes :
            \/ Respond("list_schedules", "aac_mcp.server", <<>>,
                   registered_list_schedules(server, b1))
            \/ Respond("list_schedules", "openone.tools", <<>>,
                   WithServer(server, list_schedules(Api("ScheduleApi", ApiClient(Configuration)), b1)))

Call_get_schedule ==
    /\ phase = "idle"
    /\ \E schedule_id \in IdArgs, b1 \in Outcomes :
            \/ Respond("get_schedule", "aac_mcp.server", <<schedule_id>>,
                   registered_get_schedule(server, schedule_id, b1))
            \/ Respond("get_schedule", "openone.tools", <<schedule_id>>,
                   WithServer(server, get_schedule(Api("ScheduleApi", ApiClient(Configuration)), schedule_id, b1)))

Call_update_schedule ==
    /\ phase = "idle"
    /\ \E schedule_id \in IdArgs, schedule_data \in ScheduleData :
            Respond("update_schedule", "aac_mcp.server", <<schedule_id, schedule_data>>,
                   registered_update_schedule(server, schedule_id, schedule_data))

Call_delete_schedule ==
    /\ phase = "idle"
    /\ \E schedule_id \in IdArgs, b1 \in Outcomes, b2 \in Outcomes :
            \/ Respond("delete_schedule", "aac_mcp.server", <<schedule_id>>,
                   registered_delete_schedule(server, schedule_id, b1, b2))
            \/ Respond("delete_schedule", "openone.tools", <<schedule_id>>,
                   WithServer(server, delete_schedule(Api("ScheduleApi", ApiClient(Configuration)), schedule_id, b1, b2)))

Call_enable_schedule ==
    /\ phase = "idle"
    /\ \E schedule_id \in IdArgs, b1 \in Outcomes, b2 \in Outcomes :
            \/ Respond("enable_schedule", "aac_mcp.server", <<schedule_id>>,
                   registered_enable_schedule(server, schedule_id, b1, b2))
            \/ Respond("enable_schedule", "openone.tools", <<schedule_id>>,
                   WithServer(server, enable_schedule(Api("ScheduleApi", ApiClient(Configuration)), schedule_id, b1, b2)))

Call_disable_schedule ==
    /\ phase = "idle"
    /\ \E schedule_id \in IdArgs, b1 \in Outcomes, b2 \in Outcomes :
            \/ Respond("disable_schedule", "aac_mcp.server", <<schedule_id>>,
                   registered_disable_schedule(server, schedule_id, b1, b2))
            \/ Respond("disable_schedule", "openone.tools", <<schedule_id>>,
                   WithServer(server, disable_schedule(Api("ScheduleApi", ApiClient(Configuration)), schedule_id, b1, b2)))

Call_count_schedules ==
    /\ phase = "idle"
    /\ \E b1 \in Outcomes :
            \/ Respond("count_schedules", "aac_mcp.server", <<>>,
                   registered_count_schedules(server, b1))
            \/ Respond("count_schedules", "openone.tools", <<>>,
                   WithServer(server, count_schedules(Api("ScheduleApi", ApiClient(Configuration)), b1)))

Call_list_plans ==
    /\ phase = "idle"
    /\ \E b1 \in Outcomes :
            \/ Respond("list_plans", "aac_mcp.server", <<>>,
                   registered_list_plans(server, b1))
            \/ Respond("list_plans", "openone.tools", <<>>,
                   WithServer(server, list_plans(Api("PlanApi", ApiClient(Configuration)), b1)))

Call_count_plans ==
    /\ phase = "idle"
    /\ \E b1 \in Outcomes :
            \/ Respond("count_plans", "aac_mcp.server", <<>>,
                   registered_count_plans(server, b1))
            \/ Respond("count_plans", "openone.tools", <<>>,
                   WithServer(server, count_plans(Api("PlanApi", ApiClient(Configuration)), b1)))

Call_get_plan ==
    /\ phase = "idle"
    /\ \E plan_id \in IdArgs, b1 \in Outcomes :
            \/ Respond("get_plan", "aac_mcp.server", <<plan_id>>,
                   registered_get_plan(server, plan_id, b1))
            \/ Respond("get_plan", "openone.tools", <<plan_id>>,
                   WithServer(server, get_plan(Api("PlanApi", ApiClient(Configuration)), plan_id, b1)))

Call_delete_plan ==
    /\ phase = "idle"
    /\ \E plan_id \in IdArgs, b1 \in Outcomes, b2 \in Outcomes :
            \/ Respond("delete_plan", "aac_mcp.server", <<plan_id>>,
                   registered_delete_plan(server, plan_id, b1, b2))
            \/ Respond("delete_plan", "openone.tools", <<plan_id>>,
                   WithServer(server, delete_plan(Api("PlanApi", ApiClient(Configuration)), plan_id, b1, b2)))

Call_get_plan_schedules ==
    /\ phase = "idle"
    /\ \E plan_id \in IdArgs, b1 \in Outcomes, b2 \in Outcomes :
            \/ Respond("get_plan_schedules", "aac_mcp.server", <<plan_id>>,
                   registered_get_plan_schedules(server, plan_id, b1, b2))
            \/ Respond("get_plan_schedules", "openone.tools", <<plan_id>>,
                   WithServer(server, get_plan_schedules(Api("PlanApi", ApiClient(Configuration)), plan_id, b1, b2)))

Call_run_plan ==
    /\ phase = "idle"
    /\ \E plan_id \in IdArgs, b1 \in Outcomes, b2 \in Outcomes :
            \/ Respond("run_plan", "aac_mcp.server", <<plan_id>>,
                   registered_run_plan(server, plan_id, b1, b2))
            \/ Respond("run_plan", "openone.tools", <<plan_id>>,
                   WithServer(server, run_plan(Api("PlanApi", ApiClient(Configuration)), plan_id, b1, b2)))

Call_list_workspaces ==
    /\ phase = "idle"
    /\ \E b1 \in Outcomes :
            \/ Respond("list_workspaces", "aac_mcp.server", <<>>,
                   registered_list_workspaces(server))
            \/ Respond("list_workspaces", "openone.tools", <<>>,
                   WithServer(server, list_workspaces(Api("LegacyWorkspaceApi", ApiClient(Configuration)), b1)))

Call_get_current_workspace ==
    /\ phase = "idle"
    /\ \E b1 \in Outcomes :
            \/ Respond("get_current_workspace", "aac_mcp.server", <<>>,
                   registered_get_current_workspace(server, b1))
            \/ Respond("get_current_workspace", "openone.tools", <<>>,
                   WithServer(server, get_current_workspace(Api("WorkspaceApi", ApiClient(Configuration)), b1)))

Call_get_workspace_configuration ==
    /\ phase = "idle"
    /\ \E workspace_id \in IdArgs, b1 \in Outcomes :
            \/ Respond("get_workspace_configuration", "aac_mcp.server", <<workspace_id>>,
                   registered_get_workspace_configuration(server, workspace_id, b1))
            \/ Respond("get_workspace_configuration", "openone.tools", <<workspace_id>>,
                   WithServer(server, get_workspace_configuration(Api("WorkspaceApi", ApiClient(Configuration)), workspace_id, b1)))

Call_list_workspace_users ==
    /\ phase = "idle"
    /\ \E workspace_id \in IdArgs, b1 \in Outcomes, b2 \in Outcomes :
            \/ Respond("list_workspace_users", "aac_mcp.server", <<workspace_id>>,
                   registered_list_workspace_users(server, workspace_id, b1, b2))
            \/ Respond("list_workspace_users", "openone.tools", <<workspace_id>>,
                   WithServer(server, list_workspace_users(Api("WorkspaceApi", ApiClient(Configuration)), workspace_id, b1, b2)))

Call_list_workspace_admins ==
    /\ phase = "idle"
    /\ \E workspace_id \in IdArgs, b1 \in Outcomes, b2 \in Outcomes :
            \/ Respond("list_workspace_admins", "aac_mcp.server", <<workspace_id>>,
                   registered_list_workspace_admins(server, workspace_id, b1, b2))
            \/ Respond("list_workspace_admins", "openone.tools", <<workspace_id>>,
                   WithServer(server, list_workspace_admins(Api("PersonApi", ApiClient(Configuration)), Api("WorkspaceApi", ApiClient(Configuration)), workspace_id, b1, b2)))

Call_get_current_user ==
    /\ phase = "idle"
    /\ \E b1 \in Outcomes :
            \/ Respond("get_current_user", "aac_mcp.server", <<>>,
                   registered_get_current_user(server))
            \/ Respond("get_current_user", "openone.tools", <<>>,
                   WithServer(server, get_current_user(Api("LegacyPersonApi", ApiClient(Configuration)), b1)))

Call_get_user ==
    /\ phase = "idle"
    /\ \E user_id \in IdArgs, b1 \in Outcomes :
            \/ Respond("get_user", "aac_mcp.server", <<user_id>>,
                   registered_get_user(server, user_id, b1))
            \/ Respond("get_user", "openone.tools", <<user_id>>,
                   WithServer(server, get_user(Api("PersonApi", ApiClient(Configuration)), user_id, b1)))

Call_list_datasets ==
    /\ phase = "idle"
    /\ \E b1 \in Outcomes :
            \/ Respond("list_datasets", "aac_mcp.server", <<>>,
                   registered_list_datasets(server))
            \/ Respond("list_datasets", "openone.tools", <<>>,
                   WithServer(server, list_datasets(Api("LegacyImportedDatasetApi", ApiClient(Configuration)), b1)))

Call_get_dataset ==
    /\ phase = "idle"
    /\ \E dataset_id \in IdArgs, b1 \in Outcomes :
            \/ Respond("get_dataset", "aac_mcp.server", <<dataset_id>>,
                   registered_get_dataset(server, dataset_id))
            \/ Respond("get_dataset", "openone.tools", <<dataset_id>>,
                   WithServer(server, get_dataset(Api("LegacyImportedDatasetApi", ApiClient(Configuration)), dataset_id, b1)))

Call_list_connections ==
    /\ phase = "idle"
    /\ \E b1 \in Outcomes :
            \/ Respond("list_connections", "aac_mcp.server", <<>>,
                   registered_list_connections(server))
            \/ Respond("list_connections", "openone.tools", <<>>,
                   WithServer(server, list_connections(Api("LegacyConnectionApi", ApiClient(Configuration)), b1)))

Call_get_connection ==
    /\ phase = "idle"
    /\ \E connection_id \in IdArgs, b1 \in Outcomes :
            \/ Respond("get_connection", "aac_mcp.server", <<connection_id>>,
                   registered_get_connection(server, connection_id))
            \/ Respond("get_connection", "openone.tools", <<connection_id>>,
                   WithServer(server, get_connection(Api("LegacyConnectionApi", ApiClient(Configuration)), connection_id, b1)))

Call_get_connection_status ==
    /\ phase = "idle"
    /\ \E connection_id \in IdArgs, b1 \in Outcomes, b2 \in Outcomes :
            \/ Respond("get_connection_status", "aac_mcp.server", <<connection_id>>,
                   registered_get_connection_status(server, connection_id))
            \/ Respond("get_connection_status", "openone.tools", <<connection_id>>,
                   WithServer(server, get_connection_status(Api("LegacyConnectionApi", ApiClient(Configuration)), connection_id, b1, b2)))

Call_list_publications ==
    /\ phase = "idle"
    /\ \E b1 \in Outcomes :
            \/ Respond("list_publications", "aac_mcp.server", <<>>,
                   registered_list_publications(server))
            \/ Respond("list_publications", "openone.tools", <<>>,
                   WithServer(server, list_publications(Api("LegacyPublicationApi", ApiClient(Configuration)), b1)))

Call_get_publication ==
    /\ phase = "idle"
    /\ \E publication_id \in IdArgs, b1 \in Outcomes :
            \/ Respond("get_publication", "aac_mcp.server", <<publication_id>>,
                   registered_get_publication(server, publication_id))
            \/ Respond("get_publication", "openone.tools", <<publication_id>>,
                   WithServer(server, get_publication(Api("LegacyPublicationApi", ApiClient(Configuration)), publication_id, b1)))

Call_delete_publication ==
    /\ phase = "idle"
    /\ \E publication_id \in IdArgs, b1 \in Outcomes, b2 \in Outcomes :
            \/ Respond("delete_publication", "aac_mcp.server", <<publication_id>>,
                   registered_delete_publication(server, publication_id))
            \/ Respond("delete_publication", "openone.tools", <<publication_id>>,
                   WithServer(server, delete_publication(Api("LegacyPublicationApi", ApiClient(Configuration)), publication_id, b1, b2)))

Call_list_wrangled_datasets ==
    /\ phase = "idle"
    /\ \E b1 \in Outcomes :
            \/ Respond("list_wrangled_datasets", "aac_mcp.server", <<>>,
                   registered_list_wrangled_datasets(server))
            \/ Respond("list_wrangled_datasets", "openone.tools", <<>>,
                   WithServer(server, list_wrangled_datasets(Api("LegacyWrangledDatasetApi", ApiClient(Configuration)), b1)))

Call_get_wrangled_dataset ==
    /\ phase = "idle"
    /\ \E wrangled_dataset_id \in IdArgs, b1 \in Outcomes :
            \/ Respond("get_wrangled_dataset", "aac_mcp.server", <<wrangled_dataset_id>>,
                   registered_get_wrangled_dataset(server, wrangled_dataset_id))
            \/ Respond("get_wrangled_dataset", "openone.tools", <<wrangled_dataset_id>>,
                   WithServer(server, get_wrangled_dataset(Api("LegacyWrangledDatasetApi", ApiClient(Configuration)), wrangled_dataset_id, b1)))

Call_get_inputs_for_wrangled_dataset ==
    /\ phase = "idle"
    /\ \E wrangled_dataset_id \in IdArgs, b1 \in Outcomes, b2 \in Outcomes :
            \/ Respond("get_inputs_for_wrangled_dataset", "aac_mcp.server", <<wrangled_dataset_id>>,
                   registered_get_inputs_for_wrangled_dataset(server, wrangled_dataset_id))
            \/ Respond("get_inputs_for_wrangled_dataset", "openone.tools", <<wrangled_dataset_id>>,
                   WithServer(server, get_inputs_for_wrangled_dataset(Api("LegacyWrangledDatasetApi", ApiClient(Configuration)), wrangled_dataset_id, b1, b2)))

\* The names _register_tools registers with @self.app.tool(name=...).
RegisteredTools ==
    {"list_schedules", "get_schedule", "update_schedule",
     "delete_schedule", "enable_schedule", "disable_schedule",
     "count_schedules", "list_plans", "count_plans", "get_plan",
     "delete_plan", "get_plan_schedules", "run_plan", "list_workspaces",
     "get_current_workspace", "get_workspace_configuration",
     "list_workspace_users", "list_workspace_admins",
     "get_current_user", "get_user", "list_datasets", "get_dataset",
     "list_connections", "get_connection", "get_connection_status",
     "list_publications", "get_publication", "delete_publication",
     "list_wrangled_datasets", "get_wrangled_dataset",
     "get_inputs_for_wrangled_dataset"}

\* What the host has when asked for a tool no registration names: there is
\* no function to run.
UnknownTool(name) == [t |-> "unknown_tool", name |-> name]

\* The host is asked for create_schedule.  _register_tools registers no tool
\* of that name and neither tools module defines the function, so no code
\* of the server runs.
Call_create_schedule ==
    /\ phase = "idle"
    /\ \E schedule_data \in ScheduleData :
            Respond("create_schedule", "host", <<schedule_data>>,
                   WithServer(server,
                       IF "create_schedule" \in RegisteredTools
                       THEN Result(<<>>, <<>>, ToolsAttributeError("create_schedule"))
                       ELSE Result(<<>>, <<>>, UnknownTool("create_schedule"))))

Next ==
    \/ Call_list_schedules
    \/ Call_get_schedule
    \/ Call_create_schedule
    \/ Call_update_schedule
    \/ Call_delete_schedule
    \/ Call_enable_schedule
    \/ Call_disable_schedule
    \/ Call_count_schedules
    \/ Call_list_plans
    \/ Call_count_plans
    \/ Call_get_plan
    \/ Call_delete_plan
    \/ Call_get_plan_schedules
    \/ Call_run_plan
    \/ Call_list_workspaces
    \/ Call_get_current_workspace
    \/ Call_get_workspace_configuration
    \/ Call_list_workspace_users
    \/ Call_list_workspace_admins
    \/ Call_get_current_user
    \/ Call_get_user
    \/ Call_list_datasets
    \/ Call_get_dataset
    \/ Call_list_connections
    \/ Call_get_connection
    \/ Call_get_connection_status
    \/ Call_list_publications
    \/ Call_get_publication
    \/ Call_delete_publication
    \/ Call_list_wrangled_datasets
    \/ Call_get_wrangled_dataset
    \/ Call_get_inputs_for_wrangled_dataset
    \/ Deliver

Spec == Init /\ [][Next]_vars

----------------------------------------------------------------------------
(* The handle set over the life of the server.  The handles are plain      *)
(* attributes of the server object.  No statement of server.py sets one to *)
(* None; _ensure_client_initialized tests for a handle that is None, which *)
(* only code outside server.py holding the server object can have caused.  *)

\* the ten handle attributes __init__ and _initialize_client assign, in the
\* order of assignment
HandleNames ==
    <<"schedule_api", "workspace_api", "person_api", "plan_api",
      "legacy_person_api", "legacy_workspace_api",
      "legacy_imported_dataset_api", "legacy_connection_api",
      "legacy_publication_api", "legacy_wrangled_dataset_api">>
Handles == {HandleNames[i] : i \in DOMAIN HandleNames}

\* server.<h> = None, done from outside between two tool calls
ClearHandle ==
    /\ phase = "idle"
    /\ clears < MaxClears
    /\ \E h \in Handles :
            /\ server[h] # PyNone
            /\ server' = [server EXCEPT ![h] = PyNone]
    /\ clears' = clears + 1
    /\ UNCHANGED <<phase, tool, entry, args, calls, log, out,
                   started, constructions, pc, first, locals, platform,
                   main>>

NextHandles ==
    \/ Next
    \/ ClearHandle

SpecHandles == Init /\ [][NextHandles]_vars

----------------------------------------------------------------------------
(* Registered tools run by the host concurrently, statement by statement.  *)
(* Every registered tool has the same two statements:                      *)
(*     self._ensure_client_initialized()                                   *)
(*     return tools.<name>(self.<handle>, ...)                             *)
(* pc[t] is the statement invocation t executes next: "ensure" (the test   *)
(* of _ensure_client_initialized), "init" (the first statement of          *)
(* _initialize_client), the name of the handle _initialize_client assigns  *)
(* next, or "delegate" (the call of the tool function).  No lock is taken  *)
(* anywhere in server.py.                                                  *)

\* the tools whose one argument is an identifier
TakesId ==
    {"get_schedule", "delete_schedule", "enable_schedule",
     "disable_schedule", "get_plan", "delete_plan",
     "get_plan_schedules", "run_plan", "get_workspace_configuration",
     "list_workspace_users", "list_workspace_admins", "get_user",
     "get_dataset", "get_connection", "get_connection_status",
     "get_publication", "delete_publication", "get_wrangled_dataset",
     "get_inputs_for_wrangled_dataset"}

\* the argument tuples a tool may be invoked with
Arguments(name) ==
    IF name = "update_schedule"
    THEN {<<i, d>> : i \in IdArgs, d \in ScheduleData}
    ELSE IF name \in TakesId THEN {<<i>> : i \in IdArgs}
    ELSE {<<>>}

\* the host starts the registered tool in invocation t
Invoke(t) ==
    /\ phase = "idle"
    /\ pc[t] = "idle"
    /\ pc' = [pc EXCEPT ![t] = "ensure"]
    /\ started' = TRUE
    /\ UNCHANGED <<server, phase, tool, entry, args, calls, log, out,
                   constructions, clears, first, locals, platform,
                   main>>

\* if self.schedule_api is None: self._initialize_client()
Ensure(t) ==
    /\ phase = "idle"
    /\ pc[t] = "ensure"
    /\ IF server.schedule_api = PyNone
       THEN /\ pc' = [pc EXCEPT ![t] = "init"]
            /\ constructions' = constructions + 1
       ELSE /\ pc' = [pc EXCEPT ![t] = "delegate"]
            /\ UNCHANGED constructions
    /\ UNCHANGED <<server, phase, tool, entry, args, calls, log, out,
                   started, clears, first, locals, platform,
                   main>>

\* ApiClient(config) built in _initialize_client: an object of its own,
\* told apart from every other client by the invocation t that built it
\* and the number n of constructions begun when it did
NewApiClient(config, t, n) ==
    [cls |-> "ApiClient", config |-> config, by |-> t, construction |-> n]

\* self.config = Configuration(); api_client = ApiClient(self.config)
Configure(t) ==
    /\ phase = "idle"
    /\ pc[t] = "init"
    /\ server' = [server EXCEPT !.config = _initialize_client(server).config]
    /\ locals' = [locals EXCEPT
                    ![t] = [api_client |->
                                NewApiClient(_initialize_client(server).config,
                                             t, constructions)]]
    /\ pc' = [pc EXCEPT ![t] = HandleNames[1]]
    /\ UNCHANGED <<phase, tool, entry, args, calls, log, out,
                   started, constructions, clears, first, platform,
                   main>>

\* self.<h> = <H>Api(api_client), for the ten handles in order; the local
\* api_client ends with the last
Assign(t) ==
    /\ phase = "idle"
    /\ \E i \in DOMAIN HandleNames :
            /\ pc[t] = HandleNames[i]
            /\ server' = [server EXCEPT
                             ![HandleNames[i]] =
                                Api(_initialize_client(server)[HandleNames[i]].cls,
                                    locals[t].api_client)]
            /\ pc' = [pc EXCEPT ![t] = IF i < Len(HandleNames)
                                       THEN HandleNames[i + 1] ELSE "delegate"]
            /\ locals' = [locals EXCEPT
                            ![t] = IF i < Len(HandleNames)
                                   THEN locals[t] ELSE NoLocals]
    /\ UNCHANGED <<phase, tool, entry, args, calls, log, out,
                   started, constructions, clears, first, platform,
                   main>>

\* tools.<name>(self.<handle>, ...): the second statement of the registered
\* tool name, evaluated on the server's attributes as they are
delegate(name, self, a, bs) ==
    CASE name = "list_schedules" ->
            aac_mcp_list_schedules(self.schedule_api, bs[1])
      [] name = "get_schedule" ->
            aac_mcp_get_schedule(self.schedule_api, a[1], bs[1])
      [] name = "delete_schedule" ->
            aac_mcp_delete_schedule(self.schedule_api, a[1], bs[1], bs[2])
      [] name = "enable_schedule" ->
            aac_mcp_enable_schedule(self.schedule_api, a[1], bs[1], bs[2])
      [] name = "disable_schedule" ->
            aac_mcp_disable_schedule(self.schedule_api, a[1], bs[1], bs[2])
      [] name = "count_schedules" ->
            aac_mcp_count_schedules(self.schedule_api, bs[1])
      [] name = "list_plans" ->
            aac_mcp_list_plans(self.plan_api, bs[1])
      [] name = "count_plans" ->
            aac_mcp_count_plans(self.plan_api, bs[1])
      [] name = "get_plan" ->
            aac_mcp_get_plan(self.plan_api, a[1], bs[1])
      [] name = "delete_plan" ->
            aac_mcp_delete_plan(self.plan_api, a[1], bs[1], bs[2])
      [] name = "get_plan_schedules" ->
            aac_mcp_get_plan_schedules(self.plan_api, a[1], bs[1], bs[2])
      [] name = "run_plan" ->
            aac_mcp_run_plan(self.plan_api, a[1], bs[1], bs[2])
      [] name = "get_current_workspace" ->
            aac_mcp_get_current_workspace(self.workspace_api, bs[1])
      [] name = "get_workspace_configuration" ->
            aac_mcp_get_workspace_configuration(self.workspace_api, a[1], bs[1])
      [] name = "list_workspace_users" ->
            aac_mcp_list_workspace_users(self.workspace_api, a[1], bs[1], bs[2])
      [] name = "list_workspace_admins" ->
            aac_mcp_list_workspace_admins(self.person_api, self.workspace_api,
                                          a[1], bs[1], bs[2])
      [] name = "get_user" ->
            aac_mcp_get_user(self.person_api, a[1], bs[1])
      [] OTHER -> Result(<<>>, <<>>, ToolsAttributeError(name))

\* return tools.<name>(self.<handle>, ...): the tool function of the
\* registered tool invoked runs on the handles as they are now, the platform
\* answers its backend calls with a resource, and the invocation ends.  Its
\* result stays in view until the caller has taken it (Deliver); taking it
\* changes nothing the other invocations read.
Delegate(t) ==
    /\ phase = "idle"
    /\ pc[t] = "delegate"
    /\ \E name \in RegisteredTools :
         \E id \in Ids :
            LET a == IF name = "update_schedule" THEN <<id, PyDict(<<>>)>>
                     ELSE IF name \in TakesId THEN <<id>> ELSE <<>>
                r == delegate(name, server, a,
                              <<Returns(PyDict(<<Item("name", S("n"))>>)),
                                Returns(PyDict(<<Item("name", S("n"))>>))>>)
            IN  /\ tool' = name
                /\ entry' = "aac_mcp.server"
                /\ args' = a
                /\ calls' = r.calls
                /\ log' = r.log
                /\ out' = r.out
    /\ phase' = "returned"
    /\ pc' = [pc EXCEPT ![t] = "idle"]
    /\ UNCHANGED <<server, started, constructions, clears, first, locals, platform,
                   main>>

NextConcurrent ==
    \/ \E t \in Threads : Invoke(t)
    \/ \E t \in Threads : Ensure(t)
    \/ \E t \in Threads : Configure(t)
    \/ \E t \in Threads : Assign(t)
    \/ \E t \in Threads : Delegate(t)
    \/ Deliver
    \/ ClearHandle

SpecConcurrent == Init /\ [][NextConcurrent]_vars

----------------------------------------------------------------------------
(* An invocation repeated.  The caller keeps the result of one invocation, *)
(* other invocations may follow, and then the invocation is made again     *)
(* with the same arguments while the platform answers each backend call as *)
(* it did the first time.                                                  *)

\* the function _register_tools registered under name, run with arguments a;
\* bs[1] and bs[2] are what the platform does on its backend calls
call_tool(name, self, a, bs) ==
    CASE name = "list_schedules" ->
            registered_list_schedules(self, bs[1])
      [] name = "get_schedule" ->
            registered_get_schedule(self, a[1], bs[1])
      [] name = "update_schedule" ->
            registered_update_schedule(self, a[1], a[2])
      [] name = "delete_schedule" ->
            registered_delete_schedule(self, a[1], bs[1], bs[2])
      [] name = "enable_schedule" ->
            registered_enable_schedule(self, a[1], bs[1], bs[2])
      [] name = "disable_schedule" ->
            registered_disable_schedule(self, a[1], bs[1], bs[2])
      [] name = "count_schedules" ->
            registered_count_schedules(self, bs[1])
      [] name = "list_plans" ->
            registered_list_plans(self, bs[1])
      [] name = "count_plans" ->
            registered_count_plans(self, bs[1])
      [] name = "get_plan" ->
            registered_get_plan(self, a[1], bs[1])
      [] name = "delete_plan" ->
            registered_delete_plan(self, a[1], bs[1], bs[2])
      [] name = "get_plan_schedules" ->
            registered_get_plan_schedules(self, a[1], bs[1], bs[2])
      [] name = "run_plan" ->
            registered_run_plan(self, a[1], bs[1], bs[2])
      [] name = "list_workspaces" ->
            registered_list_workspaces(self)
      [] name = "get_current_workspace" ->
            registered_get_current_workspace(self, bs[1])
      [] name = "get_workspace_configuration" ->
            registered_get_workspace_configuration(self, a[1], bs[1])
      [] name = "list_workspace_users" ->
            registered_list_workspace_users(self, a[1], bs[1], bs[2])
      [] name = "list_workspace_admins" ->
            registered_list_workspace_admins(self, a[1], bs[1], bs[2])
      [] name = "get_current_user" ->
            registered_get_current_user(self)
      [] name = "get_user" ->
            registered_get_user(self, a[1], bs[1])
      [] name = "list_datasets" ->
            registered_list_datasets(self)
      [] name = "get_dataset" ->
            registered_get_dataset(self, a[1])
      [] name = "list_connections" ->
            registered_list_connections(self)
      [] name = "get_connection" ->
            registered_get_connection(self, a[1])
      [] name = "get_connection_status" ->
            registered_get_connection_status(self, a[1])
      [] name = "list_publications" ->
            registered_list_publications(self)
      [] name = "get_publication" ->
            registered_get_publication(self, a[1])
      [] name = "delete_publication" ->
            registered_delete_publication(self, a[1])
      [] name = "list_wrangled_datasets" ->
            registered_list_wrangled_datasets(self)
      [] name = "get_wrangled_dataset" ->
            registered_get_wrangled_dataset(self, a[1])
      [] name = "get_inputs_for_wrangled_dataset" ->
            registered_get_inputs_for_wrangled_dataset(self, a[1])

\* the function name of src/openone/tools.py, called directly
call_function(name, self, a, bs) ==
    CASE name = "list_schedules" ->
            WithServer(self, list_schedules(Api("ScheduleApi", ApiClient(Configuration)), bs[1]))
      [] name = "get_schedule" ->
            WithServer(self, get_schedule(Api("ScheduleApi", ApiClient(Configuration)), a[1], bs[1]))
      [] name = "delete_schedule" ->
            WithServer(self, delete_schedule(Api("ScheduleApi", ApiClient(Configuration)), a[1], bs[1], bs[2]))
      [] name = "enable_schedule" ->
            WithServer(self, enable_schedule(Api("ScheduleApi", ApiClient(Configuration)), a[1], bs[1], bs[2]))
      [] name = "disable_schedule" ->
            WithServer(self, disable_schedule(Api("ScheduleApi", ApiClient(Configuration)), a[1], bs[1], bs[2]))
      [] name = "count_schedules" ->
            WithServer(self, count_schedules(Api("ScheduleApi", ApiClient(Configuration)), bs[1]))
      [] name = "list_plans" ->
            WithServer(self, list_plans(Api("PlanApi", ApiClient(Configuration)), bs[1]))
      [] name = "count_plans" ->
            WithServer(self, count_plans(Api("PlanApi", ApiClient(Configuration)), bs[1]))
      [] name = "get_plan" ->
            WithServer(self, get_plan(Api("PlanApi", ApiClient(Configuration)), a[1], bs[1]))
      [] name = "delete_plan" ->
            WithServer(self, delete_plan(Api("PlanApi", ApiClient(Configuration)), a[1], bs[1], bs[2]))
      [] name = "get_plan_schedules" ->
            WithServer(self, get_plan_schedules(Api("PlanApi", ApiClient(Configuration)), a[1], bs[1], bs[2]))
      [] name = "run_plan" ->
            WithServer(self, run_plan(Api("PlanApi", ApiClient(Configuration)), a[1], bs[1], bs[2]))
      [] name = "list_workspaces" ->
            WithServer(self, list_workspaces(Api("LegacyWorkspaceApi", ApiClient(Configuration)), bs[1]))
      [] name = "get_current_workspace" ->
            WithServer(self, get_current_workspace(Api("WorkspaceApi", ApiClient(Configuration)), bs[1]))
      [] name = "get_workspace_configuration" ->
            WithServer(self, get_workspace_configuration(Api("WorkspaceApi", ApiClient(Configuration)), a[1], bs[1]))
      [] name = "list_workspace_users" ->
            WithServer(self, list_workspace_users(Api("WorkspaceApi", ApiClient(Configuration)), a[1], bs[1], bs[2]))
      [] name = "list_workspace_admins" ->
            WithServer(self, list_workspace_admins(Api("PersonApi", ApiClient(Configuration)), Api("WorkspaceApi", ApiClient(Configuration)), a[1], bs[1], bs[2]))
      [] name = "get_current_user" ->
            WithServer(self, get_current_user(Api("LegacyPersonApi", ApiClient(Configuration)), bs[1]))
      [] name = "get_user" ->
            WithServer(self, get_user(Api("PersonApi", ApiClient(Configuration)), a[1], bs[1]))
      [] name = "list_datasets" ->
            WithServer(self, list_datasets(Api("LegacyImportedDatasetApi", ApiClient(Configuration)), bs[1]))
      [] name = "get_dataset" ->
            WithServer(self, get_dataset(Api("LegacyImportedDatasetApi", ApiClient(Configuration)), a[1], bs[1]))
      [] name = "list_connections" ->
            WithServer(self, list_connections(Api("LegacyConnectionApi", ApiClient(Configuration)), bs[1]))
      [] name = "get_connection" ->
            WithServer(self, get_connection(Api("LegacyConnectionApi", ApiClient(Configuration)), a[1], bs[1]))
      [] name = "get_connection_status" ->
            WithServer(self, get_connection_status(Api("LegacyConnectionApi", ApiClient(Configuration)), a[1], bs[1], bs[2]))
      [] name = "list_publications" ->
            WithServer(self, list_publications(Api("LegacyPublicationApi", ApiClient(Configuration)), bs[1]))
      [] name = "get_publication" ->
            WithServer(self, get_publication(Api("LegacyPublicationApi", ApiClient(Configuration)), a[1], bs[1]))
      [] name = "delete_publication" ->
            WithServer(self, delete_publication(Api("LegacyPublicationApi", ApiClient(Configuration)), a[1], bs[1], bs[2]))
      [] name = "list_wrangled_datasets" ->
            WithServer(self, list_wrangled_datasets(Api("LegacyWrangledDatasetApi", ApiClient(Configuration)), bs[1]))
      [] name = "get_wrangled_dataset" ->
            WithServer(self, get_wrangled_dataset(Api("LegacyWrangledDatasetApi", ApiClient(Configuration)), a[1], bs[1]))
      [] name = "get_inputs_for_wrangled_dataset" ->
            WithServer(self, get_inputs_for_wrangled_dataset(Api("LegacyWrangledDatasetApi", ApiClient(Configuration)), a[1], bs[1], bs[2]))

\* The caller takes the result and keeps it.
Keep ==
    /\ phase = "returned"
    /\ first = NoFirst
    /\ tool \in RegisteredTools
    /\ first' = [t |-> "kept", tool |-> tool, entry |-> entry, args |-> args,
                 outcomes |-> [i \in 1..Len(calls) |-> calls[i].outcome],
                 out |-> out]
    /\ phase' = "idle"
    /\ tool' = ""
    /\ entry' = ""
    /\ args' = <<>>
    /\ calls' = <<>>
    /\ log' = <<>>
    /\ out' = NoOut
    /\ UNCHANGED <<server, started, constructions, clears, pc, locals, platform, main>>

\* Another registered tool is invoked, runs to completion and its result is
\* taken: of that invocation only the server's attributes persist.
Between ==
    /\ phase = "idle"
    /\ first # NoFirst
    /\ \E name \in RegisteredTools :
         \E a \in Arguments(name) :
            server' = call_tool(name, server, a,
                                <<Returns(PyDict(<<>>)), Returns(PyDict(<<>>))>>).server
    /\ UNCHANGED <<phase, tool, entry, args, calls, log, out,
                   started, constructions, clears, pc, first, locals, platform,
                   main>>

\* The kept invocation is made again: same tool, same arguments, and the
\* platform answers the backend calls as it did the first time.
Repeat ==
    /\ phase = "idle"
    /\ first # NoFirst
    /\ \E bs \in [1..2 -> Outcomes] :
            /\ \A i \in 1..Len(first.outcomes) : bs[i] = first.outcomes[i]
            /\ Respond(first.tool, first.entry, first.args,
                       IF first.entry = "aac_mcp.server"
                       THEN call_tool(first.tool, server, first.args, bs)
                       ELSE call_function(first.tool, server, first.args, bs))

NextRepeat ==
    \/ first = NoFirst /\ Next
    \/ Keep
    \/ Between
    \/ Repeat
    \/ first # NoFirst /\ Deliver

SpecRepeat == Init /\ [][NextRepeat]_vars

----------------------------------------------------------------------------
(* The schedule tools run by the host concurrently against the platform.   *)
(* Each of delete_schedule, enable_schedule and disable_schedule makes two *)
(* backend calls: a read of the schedule and, if the checks on what was    *)
(* read pass, the primary call.  pc[t] is the call invocation t makes      *)
(* next: "read" or "primary".  No lock is taken in tools.py and the        *)
(* platform serves each call as it arrives.                                *)

ScheduleTools == {"delete_schedule", "enable_schedule", "disable_schedule"}

\* What get_schedule(id) returns for a schedule in state s: None when it
\* has been deleted, else the schedule as a mapping or as a model object.
ScheduleViews(s) ==
    IF s = PyNone THEN {PyNone}
    ELSE {PyDict(<<Item("enabled", PyBool(s.enabled))>>),
          PyObject("Schedule", <<Item("enabled", PyBool(s.enabled))>>, "ok")}

\* the platform's answer to the primary call op on a schedule in state s
PrimaryOutcomes(op, s) ==
    IF s = PyNone THEN {Raises(e) : e \in ExcTexts}
    ELSE IF op = "delete_schedule" THEN {Returns(PyNone)}
    ELSE {Returns(PyDict(<<Item("enabled", PyBool(op = "enable_schedule"))>>))}

\* the state of a schedule in state s after the primary call op
AfterPrimary(op, s) ==
    IF s = PyNone \/ op = "delete_schedule" THEN PyNone
    ELSE [enabled |-> (op = "enable_schedule")]

\* The result r of invocation t is handed to the caller.
Finish(t, r) ==
    /\ phase' = "returned"
    /\ tool' = locals[t].tool
    /\ entry' = "openone.tools"
    /\ args' = <<locals[t].schedule_id>>
    /\ calls' = r.calls
    /\ log' = r.log
    /\ out' = r.out
    /\ pc' = [pc EXCEPT ![t] = "idle"]
    /\ locals' = [locals EXCEPT ![t] = NoLocals]

\* the host calls a schedule tool function in invocation t
Begin(t) ==
    /\ phase = "idle"
    /\ pc[t] = "idle"
    /\ \E name \in ScheduleTools, id \in Ids :
            locals' = [locals EXCEPT ![t] = [tool |-> name, schedule_id |-> id]]
    /\ pc' = [pc EXCEPT ![t] = "read"]
    /\ started' = TRUE
    /\ UNCHANGED <<server, phase, tool, entry, args, calls, log, out,
                   constructions, clears, first, platform,
                   main>>

\* response = schedule_api.get_schedule(schedule_id) and the checks on it:
\* the function returns, or goes on to its primary call
Read(t) ==
    /\ phase = "idle"
    /\ pc[t] = "read"
    /\ \E v \in ScheduleViews(platform[locals[t].schedule_id]) :
            LET r == call_function(locals[t].tool, server,
                                   <<locals[t].schedule_id>>,
                                   <<Returns(v), Returns(PyNone)>>)
            IN  IF Len(r.calls) = 2
                THEN /\ pc' = [pc EXCEPT ![t] = "primary"]
                     /\ locals' = [locals EXCEPT
                                      ![t] = [tool |-> locals[t].tool,
                                              schedule_id |-> locals[t].schedule_id,
                                              response |-> Returns(v)]]
                     /\ UNCHANGED <<phase, tool, entry, args, calls, log, out>>
                ELSE Finish(t, r)
    /\ UNCHANGED <<server, started, constructions, clears, first, platform, main>>

\* response = schedule_api.<tool>(schedule_id): the platform carries the
\* operation out, and the function returns
Primary(t) ==
    /\ phase = "idle"
    /\ pc[t] = "primary"
    /\ LET id == locals[t].schedule_id
       IN  /\ \E o \in PrimaryOutcomes(locals[t].tool, platform[id]) :
                    Finish(t, call_function(locals[t].tool, server, <<id>>,
                                            <<locals[t].response, o>>))
           /\ platform' = [platform EXCEPT
                              ![id] = AfterPrimary(locals[t].tool, platform[id])]
    /\ UNCHANGED <<server, started, constructions, clears, first, main>>

NextSchedules ==
    \/ \E t \in Threads : Begin(t)
    \/ \E t \in Threads : Read(t)
    \/ \E t \in Threads : Primary(t)
    \/ Deliver

SpecSchedules == Init /\ [][NextSchedules]_vars

----------------------------------------------------------------------------
(* The process (src/aac_mcp/__main__.py).  main parses the command line,   *)
(* creates the server and runs it with the transport chosen.  main.pc is   *)
(* the statement main executes next: "parse_args", "create", "run", or     *)
(* "exited" once the process has ended.                                    *)

Transports == {"stdio", "sse", "streamable-http"}
Hosts == {"localhost", "0.0.0.0"}
Ports == {8000, 9000}
LogLevels == {"DEBUG", "INFO", "WARNING", "ERROR", "CRITICAL"}

\* an option of the command line: not given, or given with a value
Absent == [given |-> FALSE]
Given(x) == [given |-> TRUE, value |-> x]
Options(values) == {Absent} \cup {Given(x) : x \in values}

\* parser.add_argument(..., default=...)
Defaults ==
    [transport |-> "stdio", host |-> "localhost", port |-> 8000,
     log_level |-> "INFO"]

\* parse_args() on a command line giving the options in argv
parse_args(argv) ==
    [o \in DOMAIN Defaults |-> IF argv[o].given THEN argv[o].value ELSE Defaults[o]]

\* the method of the server main calls for a transport
RunMethod(transport) ==
    CASE transport = "stdio" -> "run_stdio"
      [] transport = "sse" -> "run_sse"
      [] transport = "streamable-http" -> "run_streamable_http"

\* the attributes an AACMCPServer instance has: those __init__ sets and the
\* methods the class defines
ServerAttributes ==
    DOMAIN AACMCPServer
        \cup {"app", "__init__", "_initialize_client",
              "_ensure_client_initialized", "_register_tools"}

\* args = parse_args(); setup_logging(args.log_level)
ParseArgs ==
    /\ main.pc = "parse_args"
    /\ \E tr \in Options(Transports), h \in Options(Hosts),
          p \in Options(Ports), l \in Options(LogLevels) :
            main' = [pc |-> "create",
                     args |-> parse_args([transport |-> tr, host |-> h,
                                          port |-> p, log_level |-> l])]
    /\ UNCHANGED <<server, phase, tool, entry, args, calls, log, out,
                   started, constructions, clears, pc, first, locals, platform>>

\* try: server = AACMCPServer()
\* except Exception: logger.error(...); sys.exit(1)
CreateServer ==
    /\ main.pc = "create"
    /\ \E created \in BOOLEAN :
            main' = IF created
                    THEN [pc |-> "run", args |-> main.args]
                    ELSE [pc |-> "exited", args |-> main.args, status |-> 1,
                          created |-> FALSE, ran |-> "none"]
    /\ UNCHANGED <<server, phase, tool, entry, args, calls, log, out,
                   started, constructions, clears, pc, first, locals, platform>>

\* try: await server.run_<transport>(...)
\* except KeyboardInterrupt: sys.exit(0)
\* except Exception: logger.error(...); sys.exit(1)
\* Looking up a method the server does not have raises AttributeError,
\* which is an Exception.  A method that is there runs the transport until
\* it returns, is interrupted or raises.
RunServer ==
    /\ main.pc = "run"
    /\ LET method == RunMethod(main.args.transport)
       IN  IF method \in ServerAttributes
           THEN \E status \in {0, 1} :
                    main' = [pc |-> "exited", args |-> main.args,
                             status |-> status, created |-> TRUE,
                             ran |-> method]
           ELSE main' = [pc |-> "exited", args |-> main.args, status |-> 1,
                         created |-> TRUE, ran |-> "none"]
    /\ UNCHANGED <<server, phase, tool, entry, args, calls, log, out,
                   started, constructions, clears, pc, first, locals, platform>>

NextMain ==
    \/ ParseArgs
    \/ CreateServer
    \/ RunServer

SpecMain == Init /\ [][NextMain]_vars

----------------------------------------------------------------------------
(* Payloads: the plain structures a backend call may hand to a tool, built *)
(* from scalars, a value json has no encoding for, lists and dicts.        *)

\* Longest list of a payload.
MaxElems == 2

Scalars ==
    {PyNone, PyBool(TRUE), PyBool(FALSE), PyInt(0), PyInt(3), S(""), S("n")}

\* a value json.dumps hands to default=str (a datetime, an enum member)
NonNative == PyObject("datetime", <<>>, "absent")

Leaves == Scalars \cup {NonNative}

Lists ==
    UNION {{PyList(e) : e \in [1..n -> Leaves]} : n \in 0..MaxElems}

\* keys of a mapping: strings, and an int key json.dumps accepts
Keys == {S("a"), PyInt(1)}

Dicts ==
    {PyDict(<<>>)}
        \cup {PyDict(<<[k |-> k, v |-> v]>>) :
                    k \in Keys, v \in Leaves \cup {PyList(<<NonNative>>)}}
        \cup {PyDict(<<Item("a", v), Item("b", PyDict(<<Item("c", w)>>))>>) :
                    v \in {PyInt(3), NonNative}, w \in Leaves}

Payloads ==
    Leaves \cup Lists \cup Dicts
        \cup {PyObject("Model", d.items, "ok") : d \in Dicts}

\* An openone function is called with an identifier and the platform
\* answers its backend calls with a payload: both calls, or the second
\* after a first that found a resource.
ReturnPayload ==
    /\ phase = "idle"
    /\ \E name \in RegisteredTools \ {"update_schedule"} :
         \E id \in Ids, v \in Payloads :
            \E read \in {Returns(PyDict(<<Item("name", S("n"))>>)), Returns(v)} :
                Respond(name, "openone.tools",
                        IF name \in TakesId THEN <<id>> ELSE <<>>,
                        call_function(name, server,
                                      IF name \in TakesId THEN <<id>> ELSE <<>>,
                                      <<read, Returns(v)>>))

NextRoundTrip ==
    \/ ReturnPayload
    \/ Deliver

SpecRoundTrip == Init /\ [][NextRoundTrip]_vars

----------------------------------------------------------------------------
(* Vocabulary of the properties.                                           *)

\* An invocation has finished and its result is in out.
Done == phase = "returned"

\* The invocation ran a function of a tools module (the registered tool
\* found the function it delegates to).
Entered == entry = "openone.tools" \/ tool \in aac_mcp_tools

\* Section 6: the tools that take a required identifier, and its name.
ArgName ==
    [get_schedule |-> "schedule_id", update_schedule |-> "schedule_id",
     delete_schedule |-> "schedule_id", enable_schedule |-> "schedule_id",
     disable_schedule |-> "schedule_id",
     get_plan |-> "plan_id", delete_plan |-> "plan_id", run_plan |-> "plan_id",
     get_plan_schedules |-> "plan_id",
     get_workspace_configuration |-> "workspace_id",
     list_workspace_users |-> "workspace_id",
     list_workspace_admins |-> "workspace_id",
     get_user |-> "user_id", get_dataset |-> "dataset_id",
     get_connection |-> "connection_id",
     get_connection_status |-> "connection_id",
     get_publication |-> "publication_id",
     delete_publication |-> "publication_id",
     get_wrangled_dataset |-> "wrangled_dataset_id",
     get_inputs_for_wrangled_dataset |-> "wrangled_dataset_id"]
IdTools == DOMAIN ArgName

\* Section 4.1 step 2: the precondition-gated tools, the resource kind their
\* "not found" error names, and the backend operation that is their primary
\* call.
ResourceKind ==
    [delete_schedule |-> "Schedule", enable_schedule |-> "Schedule",
     disable_schedule |-> "Schedule",
     get_plan_schedules |-> "Plan", delete_plan |-> "Plan", run_plan |-> "Plan",
     list_workspace_users |-> "Workspace", list_workspace_admins |-> "Workspace",
     get_connection_status |-> "Connection",
     delete_publication |-> "Publication",
     get_inputs_for_wrangled_dataset |-> "Wrangled dataset"]
GatedTools == DOMAIN ResourceKind
PrimaryOp ==
    [t \in GatedTools |->
        IF t = "get_plan_schedules" THEN "get_schedules_for_plan" ELSE t]
MutatingTools ==
    {"delete_schedule", "enable_schedule", "disable_schedule",
     "delete_plan", "run_plan", "delete_publication"}

\* The text of the envelope {"error": msg}.
ErrorText(msg) == Dumps(ErrorDict(<<msg>>)).v

\* The invocation returned the envelope {"error": msg}.
ReturnsError(msg) == out.t = "return" /\ out.text = ErrorText(msg)

\* The invocation returned an envelope {"error": ...}.
IsErrorEnvelope ==
    /\ out.t = "return"
    /\ out.payload.t = "dict"
    /\ Len(out.payload.items) = 1
    /\ out.payload.items[1].k = S("error")
    /\ out.payload.items[1].v.t = "str"

\* The fragments of the error message.
ErrorParts == out.payload.items[1].v.parts

\* The invocation failed: it logged an error and returned an error envelope.
Failed == IsErrorEnvelope /\ log # <<>>

NotFoundMsg == ResourceKind[tool] \o " " \o Str(args[1]) \o " not found"
EnabledMsg ==
    "Schedule " \o Str(args[1]) \o " is currently enabled and cannot be deleted"

\* The precondition read of a gated tool was made and returned value v.
ReadReturned(v) ==
    /\ calls # <<>>
    /\ calls[1].outcome = Returns(v)

\* Backend operations the invocation issued, in order.
Ops == [i \in 1..Len(calls) |-> calls[i].op]

\* A resource, as a plain mapping or a typed client object, and its fields.
IsResource(v) == v.t \in {"dict", "object"}
Fields(v) == IF v.t = "dict" THEN v.items ELSE v.fields
HasField(v, f) == \E i \in 1..Len(Fields(v)) : Fields(v)[i].k = S(f)
Field(v, f) == Lookup(Fields(v), f, PyNone)

----------------------------------------------------------------------------
(* C1: every tool registered by AACMCPServer._register_tools, for every    *)
(* argument and backend behaviour, returns one result-envelope string and  *)
(* lets no exception propagate to the host.                                *)
C1_RegisteredToolReturnsEnvelope ==
    (Done /\ entry = "aac_mcp.server") => out.t = "return"

(* C2: a tool that takes a required identifier, invoked with the           *)
(* identifier "" or None, returns exactly {"error": "<arg> is required"}   *)
(* and makes no backend call.                                              *)
C2_MissingIdRejectedWithoutBackendCall ==
    (Done /\ Entered /\ tool \in IdTools /\ args[1] \in {PyNone, S("")})
        => /\ ReturnsError(ArgName[tool] \o " is required")
           /\ calls = <<>>

(* C3 as stated: a gated tool called with a non-empty id whose precondition *)
(* read returns None or an empty result returns "<Resource> <id> not found", *)
(* has made exactly one backend call and never invokes the primary          *)
(* operation.                                                               *)
C3_EmptyOrAbsentReadIsNotFound ==
    \A v \in {PyNone, PyDict(<<>>), PyList(<<>>)} :
        (Done /\ tool \in GatedTools /\ Truthy(args[1]) /\ ReadReturned(v))
            => /\ ReturnsError(NotFoundMsg)
               /\ Len(calls) = 1

(* C3 as amended: a gated tool called with a non-empty id whose            *)
(* precondition read returns None returns "<Resource> <id> not found", has *)
(* made exactly one backend call, the read, and never invokes the primary  *)
(* operation.                                                              *)
C3_AbsentReadIsNotFound ==
    (Done /\ tool \in GatedTools /\ Truthy(args[1]) /\ ReadReturned(PyNone))
        => /\ ReturnsError(NotFoundMsg)
           /\ Len(calls) = 1
           /\ calls[1].op # PrimaryOp[tool]

C3_Witness ==
    /\ Done /\ tool = "delete_plan" /\ Truthy(args[1])
    /\ ReadReturned(PyNone)
    /\ Ops = <<"read_full">>
    /\ ReturnsError(NotFoundMsg)

(* C4: delete_schedule(id) with a non-empty id whose precondition read     *)
(* returns a resource with a truthy enabled field returns exactly the      *)
(* "currently enabled" error and never invokes the backend delete.         *)
C4_EnabledScheduleNotDeleted ==
    \A v \in BackendValues :
        (/\ Done /\ tool = "delete_schedule" /\ Truthy(args[1])
         /\ ReadReturned(v) /\ IsResource(v)
         /\ HasField(v, "enabled") /\ Truthy(Field(v, "enabled")))
            => /\ ReturnsError(EnabledMsg)
               /\ Ops = <<"get_schedule">>

(* C5: delete_schedule(id) with a non-empty id whose precondition read     *)
(* returns an existing resource with enabled false, as a plain mapping or  *)
(* a typed client object, invokes the backend delete exactly once, after   *)
(* the read, and returns the delete result normalized and serialized.      *)
C5_DisabledScheduleDeleted ==
    \A v \in BackendValues :
        (/\ Done /\ tool = "delete_schedule" /\ Truthy(args[1])
         /\ ReadReturned(v) /\ IsResource(v)
         /\ HasField(v, "enabled") /\ ~Truthy(Field(v, "enabled")))
            => /\ Ops = <<"get_schedule", "delete_schedule">>
               /\ LET r == NormalizeAndDump(calls[2].outcome)
                  IN  r.ok => out = Returned(r.payload, r.v)

(* C6: in delete_schedule, an existing resource with no enabled field does *)
(* not block deletion: the backend delete is invoked and the guard itself  *)
(* produces no error envelope.                                             *)
C6_AbsentEnabledFieldDoesNotBlock ==
    \A v \in BackendValues :
        (/\ Done /\ tool = "delete_schedule" /\ Truthy(args[1])
         /\ ReadReturned(v) /\ IsResource(v) /\ ~HasField(v, "enabled"))
            => Ops = <<"get_schedule", "delete_schedule">>

(* C7: when a backend call of a tool that takes an identifier, invoked     *)
(* with a non-empty id, raises an exception with text T, the tool returns  *)
(* an error envelope whose message contains the id and ends with T, and    *)
(* logs exactly one error record.                                          *)
C7_BackendErrorNamesIdAndText ==
    \A T \in ExcTexts :
        (/\ Done /\ tool \in IdTools /\ Truthy(args[1])
         /\ \E i \in 1..Len(calls) : calls[i].outcome = Raises(T))
            => /\ IsErrorEnvelope
               /\ ErrorParts[Len(ErrorParts)] = T
               /\ \E j \in 1..Len(ErrorParts) : ErrorParts[j] = Str(args[1])
               /\ Len(log) = 1
               /\ log[1].level = "ERROR"

(* C8: for a gated tool, a precondition read that raises is reported as    *)
(* the generic error envelope ending with the exception text and never as  *)
(* "<Resource> <id> not found"; "not found" is returned only when the read *)
(* returned, without raising, an absent value.  In both cases the primary  *)
(* operation is not invoked.                                               *)
C8_RaisingReadIsNotNotFound ==
    (Done /\ tool \in GatedTools /\ calls # <<>>)
        => /\ \A T \in ExcTexts :
                calls[1].outcome = Raises(T)
                    => /\ IsErrorEnvelope
                       /\ ErrorParts[Len(ErrorParts)] = T
                       /\ ~ReturnsError(NotFoundMsg)
                       /\ Len(calls) = 1
           /\ ReturnsError(NotFoundMsg)
                    => /\ calls[1].outcome = Returns(PyNone)
                       /\ Len(calls) = 1
                       /\ calls[1].op # PrimaryOp[tool]

C8_Witness ==
    /\ Done /\ tool = "get_connection_status" /\ Truthy(args[1])
    /\ calls # <<>>
    /\ \E T \in ExcTexts :
        /\ calls[1].outcome = Raises(T)
        /\ ReturnsError("Error getting connection status "
                            \o Str(args[1]) \o ": " \o T)
    /\ Ops = <<"get_connection">>

(* C9: an invocation issues at most one precondition read followed by at   *)
(* most one primary call: no operation twice, the primary call never first *)
(* and only after a read that returned, and a tool without a precondition  *)
(* issues at most one backend call.                                        *)
C9_AtMostOneReadThenOnePrimary ==
    Done =>
        /\ Len(calls) <= 2
        /\ tool \notin GatedTools => Len(calls) <= 1
        /\ Len(calls) = 2 =>
              (calls[1].op # calls[2].op \/ calls[1].api # calls[2].api)
        /\ tool \in GatedTools =>
              \A i \in 1..Len(calls) :
                  calls[i].op = PrimaryOp[tool]
                      => /\ i = 2
                         /\ calls[1].op # PrimaryOp[tool]
                         /\ calls[1].outcome.k = "return"
        /\ \A i \in 1..Len(calls) :
              i < Len(calls) => calls[i].outcome.k = "return"

C9_Witness ==
    /\ Done /\ tool = "enable_schedule"
    /\ Ops = <<"get_schedule", "enable_schedule">>

(* C10: no partial success: when a mutating tool fails and returns an      *)
(* error envelope, its primary mutating backend call did not complete      *)
(* successfully in that invocation.                                        *)
C10_ErrorMeansNoMutation ==
    (Done /\ tool \in MutatingTools /\ Failed)
        => ~\E i \in 1..Len(calls) :
                /\ calls[i].op = PrimaryOp[tool]
                /\ calls[i].outcome.k = "return"

----------------------------------------------------------------------------
(* Properties of the handle set.                                           *)

\* No handle of the server is None.
HandleSetComplete == \A h \in Handles : server[h] # PyNone

(* C11: if a handle of the server has been cleared between tool calls, the *)
(* next registered tool called reconstructs all ten handles before it      *)
(* makes a backend call: when it returns the handle set is complete and no *)
(* call of the invocation was made on a cleared handle.                    *)
C11_ClearedHandleIsReconstructed ==
    (Done /\ entry = "aac_mcp.server")
        => /\ HandleSetComplete
           /\ \A i \in 1..Len(calls) : calls[i].api # PyNone

(* C12: when invocations interleave while the handle set is cleared,       *)
(* _initialize_client runs at most once per cleared state, for every       *)
(* interleaving of the test in _ensure_client_initialized and the          *)
(* assignments in _initialize_client: the handle set is constructed once   *)
(* by __init__ and once more for each clearing, never more.                *)
C12_InitializedOncePerClearedState ==
    constructions <= 1 + clears

(* C13: the handles are constructed once, on first need and not before the *)
(* first tool call, from one configuration source, and later calls reuse   *)
(* them: no construction happens after the first unless a handle has been  *)
(* cleared.                                                                *)
C13_ConstructedOnceOnFirstNeed ==
    /\ ~started => \A h \in Handles : server[h] = PyNone
    /\ constructions <= 1 + clears
    /\ \A h \in Handles :
            server[h] # PyNone => server[h].client = ApiClient(server.config)

----------------------------------------------------------------------------
(* Properties of the tool surface and of single tools.                     *)

\* Section 6: the tools of the inbound interface table.
InterfaceTools ==
    {"list_schedules", "get_schedule", "create_schedule",
     "update_schedule", "delete_schedule", "enable_schedule",
     "disable_schedule", "count_schedules", "list_plans", "count_plans",
     "get_plan", "delete_plan", "get_plan_schedules", "run_plan",
     "list_workspaces", "get_current_workspace",
     "get_workspace_configuration", "list_workspace_users",
     "list_workspace_admins", "get_current_user", "get_user",
     "list_datasets", "get_dataset", "list_connections",
     "get_connection", "get_connection_status", "list_publications",
     "get_publication", "delete_publication", "list_wrangled_datasets",
     "get_wrangled_dataset", "get_inputs_for_wrangled_dataset"}

(* C14: every tool of the inbound interface table is registered under its  *)
(* name and invocable, create_schedule included: invoking create_schedule  *)
(* with a schedule_data mapping returns an envelope after exactly one      *)
(* backend call, the create operation.                                     *)
C14_InterfaceToolsRegistered ==
    (Done /\ tool \in InterfaceTools)
        => /\ tool \in RegisteredTools
           /\ tool = "create_schedule"
                => /\ out.t = "return"
                   /\ Ops = <<"create_schedule">>

(* C15: update_schedule(schedule_id, schedule_data) with a non-empty id    *)
(* invokes the backend update operation once, with a request that carries  *)
(* entries of schedule_data only, and returns the normalized result; with  *)
(* an empty or absent id it returns {"error": "schedule_id is required"}   *)
(* without a backend call.                                                 *)
C15_UpdateScheduleForwardsKnownKeys ==
    (Done /\ tool = "update_schedule")
        => IF Truthy(args[1])
           THEN /\ Ops = <<"update_schedule">>
                /\ calls[1].args[1] = args[1]
                /\ \A i \in 1..Len(calls[1].kwargs) :
                       \E j \in 1..Len(args[2].items) :
                           /\ args[2].items[j].k = S(calls[1].kwargs[i].name)
                           /\ args[2].items[j].v = calls[1].kwargs[i].value
                /\ LET r == NormalizeAndDump(calls[1].outcome)
                   IN  r.ok => out = Returned(r.payload, r.v)
           ELSE /\ ReturnsError("schedule_id is required")
                /\ calls = <<>>

\* All backend calls of the invocation went to one handle.
OneHandle == \A i, j \in 1..Len(calls) : calls[i].api = calls[j].api

\* The existence read of list_workspace_admins was made, on the workspace
\* handle.
WorkspaceRead ==
    /\ calls # <<>>
    /\ calls[1].api.cls = "WorkspaceApi"
    /\ calls[1].op = "get_configuration_for_workspace"

(* C16 as stated: list_workspace_admins reads the workspace through the    *)
(* workspace handle before listing admins through the person handle; if    *)
(* the read returns None or raises, the result is "Workspace <id> not      *)
(* found" and the admins listing is never called.  Every other tool makes  *)
(* its backend calls through one handle.                                   *)
C16_FailedCheckIsNotFound ==
    Done =>
        /\ (tool = "list_workspace_admins" /\ Truthy(args[1]) /\ WorkspaceRead)
                => /\ (calls[1].outcome = Returns(PyNone) \/ calls[1].outcome.k = "raise")
                        => /\ ReturnsError(NotFoundMsg)
                           /\ Len(calls) = 1
                   /\ Len(calls) = 2
                        => /\ calls[2].api.cls = "PersonApi"
                           /\ calls[2].op = "list_workspace_admins"
        /\ tool # "list_workspace_admins" => OneHandle

(* C16 as amended: list_workspace_admins reads the workspace through the   *)
(* workspace handle before anything else; if the read returns None the     *)
(* result is "Workspace <id> not found", if it raises with text T the      *)
(* result is the error "Error listing workspace admins: T", and in both    *)
(* cases the admins listing is never called; otherwise the admins are      *)
(* listed through the person handle.  Every other tool makes its backend   *)
(* calls through one handle.                                               *)
C16_CheckThroughWorkspaceHandleFirst ==
    (Done /\ Entered) =>
        IF tool = "list_workspace_admins"
        THEN /\ WorkspaceRead
             /\ calls[1].outcome = Returns(PyNone)
                    => /\ ReturnsError(NotFoundMsg)
                       /\ Len(calls) = 1
             /\ \A T \in ExcTexts :
                    calls[1].outcome = Raises(T)
                        => /\ ReturnsError("Error listing workspace admins: " \o T)
                           /\ Len(calls) = 1
             /\ (calls[1].outcome.k = "return" /\ calls[1].outcome.v # PyNone)
                    => /\ Len(calls) = 2
                       /\ calls[2].api.cls = "PersonApi"
                       /\ calls[2].op = "list_workspace_admins"
        ELSE OneHandle

C16_Witness ==
    /\ Done /\ tool = "list_workspace_admins" /\ Truthy(args[1])
    /\ WorkspaceRead
    /\ Len(calls) = 1
    /\ \E T \in ExcTexts :
            /\ calls[1].outcome = Raises(T)
            /\ ReturnsError("Error listing workspace admins: " \o T)

\* The envelope returned is the backend's own answer, normalized: the last
\* backend call returned and its value was serialized.
PassedThrough ==
    /\ out.t = "return"
    /\ calls # <<>>
    /\ LET r == NormalizeAndDump(calls[Len(calls)].outcome)
       IN  r.ok /\ out = Returned(r.payload, r.v)

\* The invocation ended in a failure: the tool function itself produced the
\* error envelope.
EndedInFailure == IsErrorEnvelope /\ ~PassedThrough

(* C17: an invocation that ends in a failure of any kind (validation,      *)
(* not found, enabled schedule, backend exception, serialization error)    *)
(* has emitted an error-severity log record, which for a tool that takes   *)
(* an identifier carries the identifier: no error envelope is produced     *)
(* without such a record.                                                  *)
C17_EveryFailureIsLogged ==
    (Done /\ Entered /\ EndedInFailure)
        => /\ log # <<>>
           /\ \A i \in 1..Len(log) : log[i].level = "ERROR"
           /\ tool \in IdTools
                => \E j \in 1..Len(log[1].msg) : log[1].msg[j] = Str(args[1])

(* C18: get_wrangled_dataset(id) with a non-empty id is gated like         *)
(* get_inputs_for_wrangled_dataset: when the lookup of the wrangled        *)
(* dataset returns None it returns {"error": "Wrangled dataset <id> not    *)
(* found"} and not a serialized empty payload.                             *)
C18_GetWrangledDatasetIsGated ==
    (/\ Done /\ Entered /\ tool = "get_wrangled_dataset" /\ Truthy(args[1])
     /\ ReadReturned(PyNone))
        => ReturnsError("Wrangled dataset " \o Str(args[1]) \o " not found")

\* The primary call of the invocation was made and returned value r: the
\* last of the calls a tool of its kind makes.
PrimaryReturned(r) ==
    /\ Len(calls) = (IF tool \in GatedTools THEN 2 ELSE 1)
    /\ calls[Len(calls)].outcome = Returns(r)

\* r exposes a to_dict capability.
ExposesToDict(r) == r.t = "object" /\ r.to_dict # "absent"

(* C19: for every tool and every value r its primary call returns, the     *)
(* payload serialized is r.to_dict() when r exposes to_dict and r itself,  *)
(* unchanged, otherwise (plain mapping, list, scalar or None), provided    *)
(* to_dict does not raise and the payload can be serialized; the text      *)
(* returned is that payload rendered with indent 2.                        *)
C19_PayloadIsToDictOrUnchanged ==
    \A r \in BackendValues :
        (Done /\ Entered /\ PrimaryReturned(r))
            => IF ExposesToDict(r)
               THEN (r.to_dict = "ok" /\ Serializable(PyDict(r.fields)))
                        => /\ out.t = "return"
                           /\ out.payload = PyDict(r.fields)
                           /\ out.text = Encode(PyDict(r.fields), 0)
               ELSE Serializable(r)
                        => /\ out.t = "return"
                           /\ out.payload = r
                           /\ out.text = Encode(r, 0)

C19_Witness ==
    /\ Done /\ tool = "list_schedules"
    /\ PrimaryReturned(PyObject("Model", <<Item("name", S("n"))>>, "ok"))
    /\ out.t = "return"
    /\ out.payload = PyDict(<<Item("name", S("n"))>>)
    /\ out.text = "{\n  \"name\": \"n\"\n}"

----------------------------------------------------------------------------
(* Properties of repeated invocations.                                     *)

\* The invocation just finished repeats the kept one: same tool, same
\* arguments, and every backend call was answered as the first time.
RepeatsFirst ==
    /\ Done
    /\ first # NoFirst
    /\ tool = first.tool /\ entry = first.entry /\ args = first.args
    /\ [i \in 1..Len(calls) |-> calls[i].outcome] = first.outcomes

----------------------------------------------------------------------------
(* The text of a result as the agent reads it: a sequence of JSON tokens,  *)
(* and the structure json.loads builds from them.                          *)

Punct(s) == [k |-> "punct", s |-> s]
Newline(level) == [k |-> "ws", n |-> IndentWidth * level]
StringToken(s) == [k |-> "string", s |-> s]
NumberToken(n) == [k |-> "number", n |-> n]
Literal(s) == [k |-> "literal", s |-> s]

\* the tokens json.dumps(v, indent=2, default=str) writes
RECURSIVE Lex(_, _)
LexKey(k) ==
    CASE k.t = "str"  -> StringToken(Join(k.parts))
      [] k.t = "int"  -> StringToken(ToString(k.n))
      [] k.t = "bool" -> StringToken(IF k.b THEN "true" ELSE "false")
      [] k.t = "None" -> StringToken("null")
RECURSIVE LexItems(_, _, _)
LexItems(items, i, level) ==
    <<Newline(level), LexKey(items[i].k), Punct(": ")>>
        \o Lex(items[i].v, level)
        \o (IF i = Len(items) THEN <<>>
            ELSE <<Punct(",")>> \o LexItems(items, i + 1, level))
RECURSIVE LexElems(_, _, _)
LexElems(elems, i, level) ==
    <<Newline(level)>> \o Lex(elems[i], level)
        \o (IF i = Len(elems) THEN <<>>
            ELSE <<Punct(",")>> \o LexElems(elems, i + 1, level))
Lex(v, level) ==
    CASE v.t = "None"   -> <<Literal("null")>>
      [] v.t = "bool"   -> <<Literal(IF v.b THEN "true" ELSE "false")>>
      [] v.t = "int"    -> <<NumberToken(v.n)>>
      [] v.t = "str"    -> <<StringToken(Join(v.parts))>>
      [] v.t = "dict"   -> IF v.items = <<>> THEN <<Punct("{"), Punct("}")>>
                           ELSE <<Punct("{")>> \o LexItems(v.items, 1, level + 1)
                                \o <<Newline(level), Punct("}")>>
      [] v.t = "list"   -> IF v.elems = <<>> THEN <<Punct("["), Punct("]")>>
                           ELSE <<Punct("[")>> \o LexElems(v.elems, 1, level + 1)
                                \o <<Newline(level), Punct("]")>>
      [] v.t = "object" -> <<StringToken(Str(v))>>

\* the characters a token stands for
TokenText(tok) ==
    CASE tok.k = "punct"   -> tok.s
      [] tok.k = "ws"      -> "\n" \o Spaces(tok.n)
      [] tok.k = "string"  -> "\"" \o tok.s \o "\""
      [] tok.k = "number"  -> ToString(tok.n)
      [] tok.k = "literal" -> tok.s

RECURSIVE Text(_)
Text(toks) ==
    IF toks = <<>> THEN "" ELSE TokenText(Head(toks)) \o Text(Tail(toks))

\* json.loads: a recursive-descent parse of the tokens from position i,
\* giving the value read and the position after it.  Whitespace between
\* tokens is skipped; a JSON object becomes a dict whose keys are strings.
SkipWs(toks, i) == IF toks[i].k = "ws" THEN i + 1 ELSE i

RECURSIVE ParseValue(_, _)
RECURSIVE ParseMembers(_, _, _)
ParseMembers(toks, i, acc) ==
    LET j    == SkipWs(toks, i)
        val  == ParseValue(toks, j + 2)
        k    == SkipWs(toks, val.next)
        more == Append(acc, [k |-> S(toks[j].s), v |-> val.v])
    IN  IF toks[k] = Punct(",") THEN ParseMembers(toks, k + 1, more)
        ELSE [v |-> PyDict(more), next |-> k + 1]
RECURSIVE ParseElements(_, _, _)
ParseElements(toks, i, acc) ==
    LET val  == ParseValue(toks, i)
        k    == SkipWs(toks, val.next)
        more == Append(acc, val.v)
    IN  IF toks[k] = Punct(",") THEN ParseElements(toks, k + 1, more)
        ELSE [v |-> PyList(more), next |-> k + 1]
ParseValue(toks, i) ==
    LET j   == SkipWs(toks, i)
        tok == toks[j]
    IN  CASE tok.k = "string"  -> [v |-> S(tok.s), next |-> j + 1]
          [] tok.k = "number"  -> [v |-> PyInt(tok.n), next |-> j + 1]
          [] tok.k = "literal" ->
                [v |-> CASE tok.s = "null"  -> PyNone
                         [] tok.s = "true"  -> PyBool(TRUE)
                         [] tok.s = "false" -> PyBool(FALSE),
                 next |-> j + 1]
          [] tok = Punct("{") ->
                IF toks[SkipWs(toks, j + 1)] = Punct("}")
                THEN [v |-> PyDict(<<>>), next |-> SkipWs(toks, j + 1) + 1]
                ELSE ParseMembers(toks, j + 1, <<>>)
          [] tok = Punct("[") ->
                IF toks[SkipWs(toks, j + 1)] = Punct("]")
                THEN [v |-> PyList(<<>>), next |-> SkipWs(toks, j + 1) + 1]
                ELSE ParseElements(toks, j + 1, <<>>)

Parse(toks) == ParseValue(toks, 1).v

\* v with the string form str(x) in place of every value x json has no
\* native encoding for; a str is its text.
RECURSIVE Substituted(_)
Substituted(v) ==
    CASE v.t = "object" -> S(Str(v))
      [] v.t = "str"    -> S(Join(v.parts))
      [] v.t = "dict"   ->
            PyDict([i \in 1..Len(v.items) |->
                        [k |-> IF v.items[i].k.t = "str"
                               THEN S(Join(v.items[i].k.parts))
                               ELSE v.items[i].k,
                         v |-> Substituted(v.items[i].v)]])
      [] v.t = "list"   ->
            PyList([i \in 1..Len(v.elems) |-> Substituted(v.elems[i])])
      [] OTHER -> v

\* The text returned is the JSON text of the payload, and parsing it
\* rebuilds the payload with string forms substituted.
RoundTrips ==
    /\ out.text = Text(Lex(out.payload, 0))
    /\ Parse(Lex(out.payload, 0)) = Substituted(out.payload)

\* every key of every mapping in v is a str
RECURSIVE StringKeyed(_)
StringKeyed(v) ==
    CASE v.t = "dict" -> \A i \in 1..Len(v.items) :
                            /\ v.items[i].k.t = "str"
                            /\ StringKeyed(v.items[i].v)
      [] v.t = "list" -> \A i \in 1..Len(v.elems) : StringKeyed(v.elems[i])
      [] OTHER -> TRUE

(* C21, as stated: for every payload that is a plain key-value/list/scalar *)
(* structure, parsing the returned text as JSON rebuilds a structure equal *)
(* to the normalized value, with the string form substituted for every     *)
(* value that has no native JSON encoding.                                 *)
C21_ParsedTextEqualsPayload ==
    (Done /\ out.t = "return") => RoundTrips

(* C21: for every payload that is a plain key-value/list/scalar structure  *)
(* whose mappings have string keys, parsing the returned text as JSON      *)
(* rebuilds a structure equal to the normalized value, with the string     *)
(* form substituted for every value that has no native JSON encoding.      *)
C21_ParsedTextEqualsStringKeyedPayload ==
    (Done /\ out.t = "return" /\ StringKeyed(out.payload)) => RoundTrips

\* a model object whose to_dict holds a nested mapping and a value without
\* a native encoding was returned and its text round-trips
C21_Witness ==
    /\ Done
    /\ out.t = "return"
    /\ tool = "get_schedule"
    /\ calls[1].outcome =
            Returns(PyObject("Model",
                             <<Item("a", NonNative),
                               Item("b", PyDict(<<Item("c", PyInt(3))>>))>>,
                             "ok"))
    /\ Parse(Lex(out.payload, 0)) =
            PyDict(<<Item("a", S("<datetime>")),
                     Item("b", PyDict(<<Item("c", PyInt(3))>>))>>)
    /\ RoundTrips

----------------------------------------------------------------------------
(* Properties of the handles across tool calls.                            *)

(* C22: once the handle set is initialised (no handle is None), every tool *)
(* invocation, successful or failing, leaves the configuration and all ten *)
(* handle attributes of the server unchanged and constructs no handle: no  *)
(* tool call destroys or replaces a handle.                                *)
C22_ToolCallsKeepHandles ==
    [][(phase = "idle" /\ phase' = "returned" /\ HandleSetComplete)
            => /\ server' = server
               /\ constructions' = constructions]_vars

\* with the handle set initialised, a registered tool was invoked and
\* failed, and the server still holds the handles __init__ built
C22_Witness ==
    /\ Done
    /\ entry = "aac_mcp.server"
    /\ tool = "delete_schedule"
    /\ IsErrorEnvelope
    /\ calls # <<>>
    /\ server = AACMCPServer
    /\ constructions = 1

----------------------------------------------------------------------------
(* Properties of the backend calls of an invocation.                       *)

\* the keyword arguments of backend call c, as a set of name/value pairs
Keywords(c) == {c.kwargs[i] : i \in 1..Len(c.kwargs)}

----------------------------------------------------------------------------
(* Properties of concurrent invocations.                                   *)

\* Handle h was built by a run of _initialize_client.
Rebuilt(h) ==
    /\ server[h] # PyNone
    /\ "construction" \in DOMAIN server[h].client

\* Some handles come from one run of _initialize_client and others are
\* cleared or built on another API client.
PartiallyReconstructed ==
    \E h, g \in Handles :
        /\ Rebuilt(h)
        /\ \/ server[g] = PyNone
           \/ server[g].client # server[h].client

\* list_workspace_admins made both its calls, each on a handle
AdminsListedOnHandles ==
    /\ Done
    /\ entry = "aac_mcp.server"
    /\ tool = "list_workspace_admins"
    /\ Len(calls) = 2
    /\ calls[1].api # PyNone
    /\ calls[2].api # PyNone

(* C24: in every interleaving of _initialize_client with other tool        *)
(* invocations, an invocation that is about to call its tool function      *)
(* never finds the handle set partially reconstructed (some handles from   *)
(* the new construction, others cleared or from another one), and the      *)
(* workspace handle and the person handle list_workspace_admins made its   *)
(* calls on are built on the same API client.                              *)
C24_HandleSetPassedWhole ==
    /\ \A t \in Threads : pc[t] = "delegate" => ~PartiallyReconstructed
    /\ AdminsListedOnHandles => calls[1].api.client = calls[2].api.client

\* Invocation t is delete_schedule and has passed its checks: its next
\* statement is the backend delete call.
DeleteIsNext(t) ==
    /\ pc[t] = "primary"
    /\ locals[t].tool = "delete_schedule"

(* C25: in every interleaving of delete_schedule(id) with enable_schedule  *)
(* (id), when the backend delete call is about to be made the schedule is  *)
(* not enabled on the platform: what the precondition read showed still    *)
(* holds.                                                                  *)
C25_DeleteNeverIssuedOnEnabled ==
    \A t \in Threads :
        DeleteIsNext(t)
            => \/ platform[locals[t].schedule_id] = PyNone
               \/ ~platform[locals[t].schedule_id].enabled

----------------------------------------------------------------------------
(* Properties of the process.                                              *)

\* The process has ended.
Exited == main.pc = "exited"

(* C26: for each transport choice, once main has created the server the    *)
(* transport is started with the run method of that choice (with no        *)
(* arguments: run_stdio), and the process exits with status 1 only if the  *)
(* creation of the server raised or the transport, having been started,    *)
(* raised.                                                                 *)
C26_TransportIsStarted ==
    Exited
        => /\ main.created => main.ran = RunMethod(main.args.transport)
           /\ main.status = 1 => (~main.created \/ main.ran # "none")

----------------------------------------------------------------------------
(* Properties relating the two tools modules.                              *)

\* what the platform did on the backend calls of the invocation, in order
\* (None where no call was made)
OutcomesSeen ==
    [i \in 1..2 |-> IF i <= Len(calls) THEN calls[i].outcome ELSE Returns(PyNone)]

(* C27: for every function defined in both tools modules, every argument   *)
(* and every behaviour of the backend, the function of src/aac_mcp/tools.py *)
(* makes the same backend calls (same handle, method and arguments, in the *)
(* same order) and returns the same text as the function of                *)
(* src/openone/tools.py.                                                   *)
C27_ToolsModulesAgree ==
    (Done /\ entry = "openone.tools" /\ tool \in aac_mcp_tools)
        => LET r == delegate(tool, server, args, OutcomesSeen)
           IN  /\ r.calls = calls
               /\ r.out = out

----------------------------------------------------------------------------
(* Properties of what the backend calls of an invocation act on.           *)

(* C28: every backend call made during the invocation of a tool that takes *)
(* an identifier, the precondition read and the primary call alike, is     *)
(* given exactly the identifier passed to the tool as its one positional   *)
(* argument: no tool reads one resource and acts on another.               *)
C28_CallsTargetTheGivenId ==
    (Done /\ Entered /\ tool \in IdTools)
        => \A i \in 1..Len(calls) : calls[i].args = <<args[1]>>

\* delete_publication read the publication "id2" and then deleted it
C28_Witness ==
    /\ Done
    /\ Entered
    /\ tool = "delete_publication"
    /\ args = <<S("id2")>>
    /\ Len(calls) = 2
    /\ calls[1].op = "get_publication"
    /\ calls[1].args = <<S("id2")>>
    /\ calls[2].op = "delete_publication"
    /\ calls[2].args = <<S("id2")>>
    /\ calls[2].outcome.k = "return"

\* the tools whose name marks them as reading only
ReadOnlyTools ==
    {"list_schedules", "get_schedule", "count_schedules", "list_plans",
     "count_plans", "get_plan", "get_plan_schedules", "list_workspaces",
     "get_current_workspace", "get_workspace_configuration",
     "list_workspace_users", "list_workspace_admins", "get_current_user",
     "get_user", "list_datasets", "get_dataset", "list_connections",
     "get_connection", "get_connection_status", "list_publications",
     "get_publication", "list_wrangled_datasets", "get_wrangled_dataset",
     "get_inputs_for_wrangled_dataset"}

(* C29: after any sequence of invocations, a mutating backend operation    *)
(* (delete_schedule, enable_schedule, disable_schedule, delete_plan,       *)
(* run_plan, delete_publication) has been issued only by the invocation of *)
(* the tool of the same name; a list_*, get_* or count_* tool issues none. *)
C29_OnlyItsOwnToolMutates ==
    Done
        => /\ \A i \in 1..Len(calls) :
                calls[i].op \in MutatingTools => tool = calls[i].op
           /\ tool \in ReadOnlyTools
                => \A i \in 1..Len(calls) : calls[i].op \notin MutatingTools

\* get_plan_schedules, called through the server, read the plan and its
\* schedules and issued no mutating operation
C29_Witness ==
    /\ Done
    /\ entry = "aac_mcp.server"
    /\ tool = "get_plan_schedules"
    /\ Len(calls) = 2
    /\ calls[1].op = "read_full"
    /\ calls[2].op = "get_schedules_for_plan"
    /\ out.t = "return"
    /\ ~IsErrorEnvelope

----------------------------------------------------------------------------
(* Properties of the error envelope as the agent reads it.                 *)

\* The text returned, parsed as JSON, is a mapping with an "error" key.
ReadsAsError ==
    /\ out.t = "return"
    /\ out.text = Text(Lex(out.payload, 0))
    /\ LET v == Parse(Lex(out.payload, 0))
       IN  /\ v.t = "dict"
           /\ \E i \in 1..Len(v.items) : v.items[i].k = S("error")

(* C30: a tool returns text whose top-level JSON value is a mapping with   *)
(* an "error" key only when the invocation failed (validation, not found,  *)
(* business rule or caught exception): an invocation whose primary call    *)
(* returned and whose payload was serialized never reads as an error       *)
(* envelope, whatever the backend returned.                                *)
C30_ErrorKeyOnlyOnFailure ==
    (Done /\ Entered /\ ReadsAsError) => EndedInFailure

====
